---------------------------- MODULE Spec2Model ----------------------------
(***************************************************************************)
(* A model of nedb (SReject/nedb): the serialized executor, the datastore  *)
(* operations that run through it, the append-only persistence layer and   *)
(* the crash-safe storage primitives.                                      *)
(*                                                                         *)
(* Spec         the datastore: executor.js, the operations of datastore.js *)
(*              and cursor.js that are pushed through the executor,        *)
(*              persistence.js and the lib/storage.js they call.           *)
(* SpecIndex    Spec and the caller's direct ensureIndex / removeIndex.    *)
(* SpecStorage  storage.crashSafeWriteFile / ensureDatafileIntegrity on    *)
(*              their own, step by step and with a kill of the process,    *)
(*              for the two implementations found in the repository.       *)
(* SpecData     the index layer of a loaded datastore: the content of      *)
(*              every Index, the lines of the datafile, and insert,        *)
(*              update, remove, ensureIndex, removeIndex, loadDatabase and *)
(*              compactDatafile one after the other, each with its         *)
(*              rollbacks and with an append that can fail.  A tree is the *)
(*              set of its documents.                                      *)
(* SpecFair     Spec with weak fairness of the queue worker, the deferred  *)
(*              callbacks and the file operations.                         *)
(* SpecIdIndex  SpecData and removeIndex('_id').                           *)
(* SpecCalls    functions on their own, each called once with arguments    *)
(*              from a bounded set: treatRawData, the check of the hooks   *)
(*              in the Persistence constructor, serialize / deserialize,   *)
(*              getCandidates with a TTL index, Cursor.exec with skip,     *)
(*              limit, sort and projection, and the candidates that        *)
(*              getCandidates takes from an index for a query.             *)
(* SpecUpsert   SpecData and update with the upsert option.                *)
(* SpecTtl      a datastore constructed over an existing datafile:         *)
(*              ensureIndex with expireAfterSeconds, removeIndex,          *)
(*              loadDatabase with its failures, and find at a given time.  *)
(***************************************************************************)
EXTENDS Integers, Sequences, FiniteSets, TLC

(***************************************************************************)
(* Bounds of the model.                                                    *)
(***************************************************************************)
\* number of operations the caller pushes through the executor
MaxOps == 3
\* number of direct ensureIndex / removeIndex calls
MaxIndexOps == 1
\* number of lines of a file that crashSafeWriteFile is given or finds
MaxLines == 2
\* number of operations on the index layer
MaxDataOps == 3
\* number of pieces of text of a raw datafile
MaxRaw == 5
\* depth of the objects of a document
MaxDepth == 3

(***************************************************************************)
(* Values.  A document is {_id, v}; _id ranges over strings, among them    *)
(* the empty string (a string like any other for insert, falsy in JS).     *)
(***************************************************************************)
IdOrder == <<"", "a">>
Ids == {IdOrder[i] : i \in 1..Len(IdOrder)}
Vals == {1, 2}
Fields == {"f"}
\* a field that is not present in an object (JS undefined)
Undefined == "<undefined>"
\* no document stored under an _id
Absent == 0

VARIABLES
    \* ---- Datastore / Executor (Spec) ----
    inMemoryOnly,   \* Datastore.inMemoryOnly
    ready,          \* Executor.ready
    buffer,         \* Executor.buffer
    qtasks,         \* async.queue: q.tasks
    workers,        \* async.queue: workers
    running,        \* the started tasks that have not completed, each with its position
    docs,           \* Datastore.indexes._id: _id -> v
    indexes,        \* the field names of Datastore.indexes other than _id
    datafile,       \* the datafile as the OS holds it
    durable,        \* the datafile as it is on the storage device (fsynced)
    tempfile,       \* the datafile~ companion
    pendingIx,      \* appendFile calls issued by ensureIndex / removeIndex, not yet performed
    \* ---- history (Spec) ----
    nsub,           \* operations pushed so far
    nix,            \* direct index operations so far
    bufferedSet,    \* tasks that were put in the buffer by push
    admitSeq,       \* task numbers in the order of queue.push
    startSeq,       \* task numbers in the order the worker started them
    doneSet,        \* tasks whose completion was signalled to the queue
    subs,           \* the tasks pushed, by number
    loadedOk,       \* a loadDatabase task has completed successfully
    expected,       \* logical result of the successful inserts / updates / removes
    \* ---- storage on its own (SpecStorage); datafile is filename, tempfile filename~ ----
    impl,           \* which storage module: "lib" (lib/storage.js) or "part_000"
    platform,       \* process.platform
    phase,          \* "idle", "writing", "returned", "killed", "recovered"
    cswStep,        \* the step of the waterfall that runs next
    opened,         \* writeFile has opened filename~
    cswData,        \* the data argument
    preWrite,       \* filename as it was when crashSafeWriteFile was called
    cswTrace,       \* the file operations attempted, in order
    cswResult,      \* what the call reported: "none", "ok", "err"
    \* ---- the index layer (SpecData) ----
    dbIndexes,      \* Datastore.indexes: the indexes with their trees, in Object.keys order
    dbLines,        \* the lines of the datafile
    lastOp,         \* the last operation: what it was, its outcome, the state before it
    nops,           \* operations so far
    ttlIndexes,     \* Datastore.ttlIndexes: the fields with their expireAfterSeconds
    \* ---- functions on their own (SpecCalls) ----
    call            \* the last call: the function, what it was given, what it did

dsvars == <<inMemoryOnly, ready, buffer, qtasks, workers, running, docs, indexes,
            datafile, durable, tempfile, pendingIx>>
histvars == <<nsub, nix, bufferedSet, admitSeq, startSeq, doneSet, subs,
              loadedOk, expected>>
stvars == <<impl, platform, phase, cswStep, opened, cswData, preWrite, cswTrace, cswResult>>
ixvars == <<dbIndexes, dbLines, lastOp, nops, ttlIndexes>>
fnvars == <<call>>
vars == <<dsvars, histvars, stvars, ixvars, fnvars>>

(***************************************************************************)
(* Files and records.                                                      *)
(***************************************************************************)
\* no function was called yet
NoCall == [fn |-> "none"]

SeqToSet(sq) == {sq[k] : k \in 1..Len(sq)}

NoFile == [exists |-> FALSE, data |-> <<>>]
File(d) == [exists |-> TRUE, data |-> d]

\* the object a line of the datafile parses to
DocRec(id, v) == [id |-> id, deleted |-> FALSE, ixc |-> Undefined, ixr |-> Undefined, v |-> v]
Tombstone(id) == [id |-> id, deleted |-> TRUE, ixc |-> Undefined, ixr |-> Undefined, v |-> 0]
IndexCreated(f) == [id |-> Undefined, deleted |-> FALSE, ixc |-> f, ixr |-> Undefined, v |-> 0]
IndexRemoved(f) == [id |-> Undefined, deleted |-> FALSE, ixc |-> Undefined, ixr |-> f, v |-> 0]

\* fs.appendFile: creates the file when it does not exist
AppendFile(file, recs) == File(file.data \o recs)

\* JS truthiness of a (string or undefined) value
Truthy(x) == x # Undefined /\ x # ""

NoDocs == [i \in Ids |-> Absent]

(***************************************************************************)
(* Persistence.treatRawData: the fold of the lines of the datafile.        *)
(***************************************************************************)
TreatLine(acc, doc) ==
    IF Truthy(doc.id)
    THEN IF doc.deleted = TRUE
         THEN [acc EXCEPT !.data[doc.id] = Absent]
         ELSE [acc EXCEPT !.data[doc.id] = doc.v]
    ELSE IF doc.ixc # Undefined
         THEN [acc EXCEPT !.indexes = @ \cup {doc.ixc}]
         ELSE IF doc.ixr # Undefined
              THEN [acc EXCEPT !.indexes = @ \ {doc.ixr}]
              ELSE acc

RECURSIVE TreatLines(_, _)
TreatLines(lines, k) ==
    IF k = 0 THEN [data |-> NoDocs, indexes |-> {}]
    ELSE TreatLine(TreatLines(lines, k - 1), lines[k])

treatRawData(rawData) == TreatLines(rawData, Len(rawData))

(***************************************************************************)
(* Persistence.persistCachedDatabase: what a compaction writes.            *)
(***************************************************************************)
RECURSIVE DocLines(_, _)
DocLines(d, k) ==
    IF k = 0 THEN <<>>
    ELSE DocLines(d, k - 1) \o
         (IF d[IdOrder[k]] # Absent THEN <<DocRec(IdOrder[k], d[IdOrder[k]])>> ELSE <<>>)

IndexLines(ixs) == IF "f" \in ixs THEN <<IndexCreated("f")>> ELSE <<>>

toPersistCached(d, ixs) == DocLines(d, Len(IdOrder)) \o IndexLines(ixs)

(***************************************************************************)
(* Executor.                                                               *)
(***************************************************************************)
\* a queue with two workers
ConcurrencyTwo == 1 + 1

\* async.queue(worker, 1)
Concurrency == 1

\* a push that never buffers
ShouldQueueAlways(rdy, forceQueuing) == TRUE

\* a push that buffers every task that is not forced
ShouldQueueForced(rdy, forceQueuing) == forceQueuing

\* Executor.push: if (this.ready || forceQueuing)
ShouldQueue(rdy, forceQueuing) == rdy \/ forceQueuing

\* a processBuffer that forgets the buffered tasks
DrainBufferDropped(buf) == <<>>

\* the buffer handed over last-pushed first
DrainBufferReversed(buf) == [i \in 1..Len(buf) |-> buf[Len(buf) + 1 - i]]

\* Executor.processBuffer: the buffered tasks in the order queue.push receives them
DrainBuffer(buf) == buf

\* a worker that takes the most recently pushed task
DequeueLast(q) == q[Len(q)]

\* async.queue process: q.tasks.shift()
Dequeue(q) == Head(q)

Task(n, kind, id, v) == [n |-> n, kind |-> kind, id |-> id, v |-> v, force |-> kind = "load"]

Nums(s) == [i \in 1..Len(s) |-> s[i].n]

push(task) ==
    /\ nsub < MaxOps
    /\ nsub' = nsub + 1
    /\ subs' = Append(subs, task)
    /\ IF ShouldQueue(ready, task.force)
       THEN /\ qtasks' = Append(qtasks, task)
            /\ admitSeq' = Append(admitSeq, task.n)
            /\ UNCHANGED <<buffer, bufferedSet>>
       ELSE /\ buffer' = Append(buffer, task)
            /\ bufferedSet' = bufferedSet \cup {task.n}
            /\ UNCHANGED <<qtasks, admitSeq>>
    /\ UNCHANGED <<ixvars, fnvars, stvars, inMemoryOnly, ready, workers, running, docs, indexes, datafile, durable,
                   tempfile, pendingIx, nix, startSeq, doneSet, loadedOk, expected>>

\* the public operations that go through the executor
loadDatabase == push(Task(nsub + 1, "load", "", 0))
insert == \E id \in Ids, v \in Vals : push(Task(nsub + 1, "insert", id, v))
update == \E id \in Ids, v \in Vals : push(Task(nsub + 1, "update", id, v))
remove == \E id \in Ids : push(Task(nsub + 1, "remove", id, 0))
exec == push(Task(nsub + 1, "exec", "", 0))
compactDatafile == push(Task(nsub + 1, "compact", "", 0))


(***************************************************************************)
(* Datastore.ensureIndex / removeIndex: called by the caller directly,     *)
(* not pushed to the executor.  The index set changes at once; the         *)
(* $$indexCreated / $$indexRemoved record is handed to fs.appendFile,      *)
(* which performs the append later.                                        *)
(***************************************************************************)
\* Persistence.persistNewState for a direct caller: the appendFile it issues
persistIndexRecord(rec) == IF inMemoryOnly THEN pendingIx ELSE Append(pendingIx, rec)

ensureIndex ==
    \E f \in Fields :
        /\ nix < MaxIndexOps
        /\ nix' = nix + 1
        /\ IF f \in indexes
           THEN UNCHANGED <<indexes, pendingIx>>
           ELSE /\ indexes' = indexes \cup {f}
                /\ pendingIx' = persistIndexRecord(IndexCreated(f))
        /\ UNCHANGED <<ixvars, fnvars, stvars, inMemoryOnly, ready, buffer, qtasks, workers, running, docs, datafile,
                       durable, tempfile, nsub, bufferedSet, admitSeq, startSeq, doneSet,
                       subs, loadedOk, expected>>

removeIndex ==
    \E f \in Fields :
        /\ nix < MaxIndexOps
        /\ nix' = nix + 1
        /\ indexes' = indexes \ {f}
        /\ pendingIx' = persistIndexRecord(IndexRemoved(f))
        /\ UNCHANGED <<ixvars, fnvars, stvars, inMemoryOnly, ready, buffer, qtasks, workers, running, docs, datafile,
                       durable, tempfile, nsub, bufferedSet, admitSeq, startSeq, doneSet,
                       subs, loadedOk, expected>>

\* fs.appendFile of an index record completes
indexAppendDone ==
    /\ pendingIx # <<>>
    /\ datafile' = AppendFile(datafile, <<Head(pendingIx)>>)
    /\ pendingIx' = Tail(pendingIx)
    /\ UNCHANGED <<ixvars, fnvars, stvars, inMemoryOnly, ready, buffer, qtasks, workers, running, docs, indexes,
                   durable, tempfile, histvars>>

(***************************************************************************)
(* The worker of the queue: a task starts and runs its synchronous part,   *)
(* up to its first file operation or to its callback.                      *)
(*   pc "append"     Persistence.persistNewState waits for fs.appendFile   *)
(*   pc "integrity"  Persistence.loadDatabase waits for mkdirp and         *)
(*                   storage.ensureDatafileIntegrity                       *)
(*   pc "read"       ... waits for storage.readFile                        *)
(*   pc "csw"        storage.crashSafeWriteFile, before step `step`        *)
(*   pc "signalled"  the task's callback was invoked, setImmediate(cb) is  *)
(*                   pending                                               *)
(***************************************************************************)
\* pos: where in the datafile the appended records of the task end;
\* emitted: how many times the task has emitted compaction.done;
\* called: how many times the caller's callback was invoked;
\* calling: the caller's callback is executing
Run(t, pc, step, recs, err) ==
    [t |-> t, pc |-> pc, step |-> step, recs |-> recs, err |-> err, pos |-> 0,
     emitted |-> 0, called |-> IF pc = "signalled" THEN 1 ELSE 0,
     calling |-> pc = "signalled"]

\* the wrapper the executor puts in the place of the task's callback:
\* setImmediate(cb), then lastArg(...args)
lastArg(r) == [r EXCEPT !.pc = "signalled", !.called = @ + 1, !.calling = TRUE]

\* a persistNewState that calls back without appending
persistNewStateSkipped(inMem, toPersist) == "signalled"

\* Persistence.persistNewState: where the operation is after calling it
persistNewStatePc(inMem, toPersist) ==
    IF inMem \/ toPersist = <<>> THEN "signalled" ELSE "append"

\* the logical effect of a successful insert, update or remove
Logical(exp, t) ==
    CASE t.kind = "insert" -> [exp EXCEPT ![t.id] = t.v]
      [] t.kind = "update" -> IF exp[t.id] # Absent THEN [exp EXCEPT ![t.id] = t.v] ELSE exp
      [] t.kind = "remove" -> [exp EXCEPT ![t.id] = Absent]
      [] OTHER -> exp

\* Datastore._insert: prepareDocumentForInsertion, _insertInCache, persistNewState
insertTask(t) ==
    IF docs[t.id] # Absent
    THEN [docs |-> docs, r |-> Run(t, "signalled", 0, <<>>, TRUE)]
    ELSE [docs |-> [docs EXCEPT ![t.id] = t.v],
          r |-> Run(t, persistNewStatePc(inMemoryOnly, <<DocRec(t.id, t.v)>>), 0,
                    <<DocRec(t.id, t.v)>>, FALSE)]

\* Datastore._update with query {_id: id} and replacement {v: v}
updateTask(t) ==
    LET mods == IF docs[t.id] # Absent THEN <<DocRec(t.id, t.v)>> ELSE <<>>
    IN [docs |-> IF docs[t.id] # Absent THEN [docs EXCEPT ![t.id] = t.v] ELSE docs,
        r |-> Run(t, persistNewStatePc(inMemoryOnly, mods), 0, mods, FALSE)]

\* Datastore._remove with query {_id: id}
removeTask(t) ==
    LET removed == IF docs[t.id] # Absent THEN <<Tombstone(t.id)>> ELSE <<>>
    IN [docs |-> [docs EXCEPT ![t.id] = Absent],
        r |-> Run(t, persistNewStatePc(inMemoryOnly, removed), 0, removed, FALSE)]

\* Cursor._exec: reads the indexes, no effect
execTask(t) == [docs |-> docs, r |-> Run(t, "signalled", 0, <<>>, FALSE)]

\* Persistence.persistCachedDatabase as a task of its own (compactDatafile)
compactTask(t) ==
    IF inMemoryOnly
    THEN [docs |-> docs, r |-> Run(t, "signalled", 0, <<>>, FALSE)]
    ELSE [docs |-> docs, r |-> Run(t, "csw", 1, toPersistCached(docs, indexes), FALSE)]

\* Persistence.loadDatabase: resetIndexes(), then the waterfall
loadTask(t) ==
    IF inMemoryOnly
    THEN [docs |-> NoDocs, r |-> Run(t, "signalled", 0, <<>>, FALSE)]
    ELSE [docs |-> NoDocs, r |-> Run(t, "integrity", 0, <<>>, FALSE)]

taskFn(t) ==
    CASE t.kind = "insert" -> insertTask(t)
      [] t.kind = "update" -> updateTask(t)
      [] t.kind = "remove" -> removeTask(t)
      [] t.kind = "exec" -> execTask(t)
      [] t.kind = "compact" -> compactTask(t)
      [] OTHER -> loadTask(t)

Mutating == {"insert", "update", "remove"}

\* async.queue process(): workers < concurrency && tasks.length
process ==
    /\ workers < Concurrency
    /\ qtasks # <<>>
    /\ LET t == Dequeue(qtasks)
           b == taskFn(t)
       IN /\ qtasks' = SelectSeq(qtasks, LAMBDA x : x # t)
          /\ workers' = workers + 1
          /\ running' = running \cup {b.r}
          /\ docs' = b.docs
          /\ startSeq' = Append(startSeq, t.n)
          /\ expected' = IF b.r.pc = "signalled" /\ ~b.r.err
                         THEN Logical(expected, t) ELSE expected
    /\ UNCHANGED <<ixvars, fnvars, stvars, inMemoryOnly, ready, buffer, indexes, datafile, durable, tempfile, pendingIx,
                   nsub, nix, bufferedSet, admitSeq, doneSet, subs, loadedOk>>

Replace(r, r2) == (running \ {r}) \cup {r2}

\* fs.appendFile of persistNewState completes: the record is in the file, the callback runs
appendDone ==
    \E r \in running :
        /\ r.pc = "append"
        /\ datafile' = AppendFile(datafile, r.recs)
        /\ running' = Replace(r, [lastArg(r) EXCEPT !.pos = Len(datafile'.data)])
        /\ expected' = Logical(expected, r.t)
        /\ UNCHANGED <<ixvars, fnvars, stvars, inMemoryOnly, ready, buffer, qtasks, workers, docs, indexes, durable,
                       tempfile, pendingIx, nsub, nix, bufferedSet, admitSeq, startSeq,
                       doneSet, subs, loadedOk>>

\* fs.appendFile fails: callback(err); the indexes keep the change
appendFailed ==
    \E r \in running :
        /\ r.pc = "append"
        /\ running' = Replace(r, [lastArg(r) EXCEPT !.err = TRUE])
        /\ UNCHANGED <<ixvars, fnvars, stvars, inMemoryOnly, ready, buffer, qtasks, workers, docs, indexes, datafile,
                       durable, tempfile, pendingIx, histvars>>

(***************************************************************************)
(* Persistence.loadDatabase, after resetIndexes.                           *)
(***************************************************************************)
\* storage.ensureDatafileIntegrity of lib/storage.js: the files it leaves
ensureDatafileIntegrity(file, temp) ==
    IF file.exists
    THEN [filename |-> file, tempFilename |-> temp]
    ELSE IF ~temp.exists
         THEN [filename |-> File(<<>>), tempFilename |-> temp]
         ELSE [filename |-> temp, tempFilename |-> NoFile]

\* Persistence.loadDatabase: ensureDirectoryExists, storage.ensureDatafileIntegrity
loadEnsureDatafileIntegrity ==
    \E r \in running :
        /\ r.pc = "integrity"
        /\ datafile' = ensureDatafileIntegrity(datafile, tempfile).filename
        /\ tempfile' = ensureDatafileIntegrity(datafile, tempfile).tempFilename
        /\ UNCHANGED durable
        /\ running' = Replace(r, [r EXCEPT !.pc = "read"])
        /\ UNCHANGED <<ixvars, fnvars, stvars, inMemoryOnly, ready, buffer, qtasks, workers, docs, indexes, pendingIx,
                       histvars>>

\* storage.readFile succeeded: treatRawData, the indexes are rebuilt, persistCachedDatabase
\* takes its snapshot and calls crashSafeWriteFile
readFileDone ==
    \E r \in running :
        /\ r.pc = "read"
        /\ datafile.exists
        /\ LET treatedData == treatRawData(datafile.data)
           IN /\ indexes' = indexes \cup treatedData.indexes
              /\ docs' = treatedData.data
              /\ running' = Replace(r, [r EXCEPT !.pc = "csw", !.step = 1,
                                          !.recs = toPersistCached(docs', indexes')])
        /\ UNCHANGED <<ixvars, fnvars, stvars, inMemoryOnly, ready, buffer, qtasks, workers, datafile, durable, tempfile,
                       pendingIx, histvars>>

\* storage.readFile failed: cb(err), the final callback returns the error
readFileFailed ==
    \E r \in running :
        /\ r.pc = "read"
        /\ running' = Replace(r, [lastArg(r) EXCEPT !.err = TRUE])
        /\ UNCHANGED <<ixvars, fnvars, stvars, inMemoryOnly, ready, buffer, qtasks, workers, docs, indexes, datafile,
                       durable, tempfile, pendingIx, histvars>>


(***************************************************************************)
(* storage.crashSafeWriteFile (lib/storage.js) as persistCachedDatabase    *)
(* calls it: async.waterfall of                                            *)
(*   1 flushToStorage(dirname)      4 flushToStorage(filename~)            *)
(*   2 flushToStorage(filename)     5 rename(filename~, filename)          *)
(*     if it exists                 6 flushToStorage(dirname)              *)
(*   3 writeFile(filename~, data)                                          *)
(* The data written to filename~ is on the device after step 4, under the  *)
(* name filename after step 6.                                             *)
(***************************************************************************)
LastCswStep == 6

\* an emission whatever crashSafeWriteFile reported
compactionDoneAlways(err) == 1
\* the callback persistCachedDatabase gives to crashSafeWriteFile: the number
\* of compaction.done events it emits before it calls the callback
compactionDone(err) == IF err THEN 0 ELSE 1

\* Persistence.loadDatabase's final callback: processBuffer(), callback(null);
\* persistCachedDatabase's own: emit compaction.done, callback(null)
cswFinished(r) ==
    /\ running' = Replace(r, [lastArg(r) EXCEPT !.emitted = @ + compactionDone(FALSE)])
    /\ IF r.t.kind = "load"
       THEN /\ ready' = TRUE
            /\ qtasks' = qtasks \o DrainBuffer(buffer)
            /\ admitSeq' = admitSeq \o Nums(DrainBuffer(buffer))
            /\ buffer' = <<>>
            /\ loadedOk' = TRUE
       ELSE UNCHANGED <<ready, qtasks, admitSeq, buffer, loadedOk>>

cswStepDone ==
    \E r \in running :
        /\ r.pc = "csw"
        /\ CASE r.step = 2 ->
                  /\ durable' = IF datafile.exists THEN datafile ELSE durable
                  /\ UNCHANGED <<datafile, tempfile>>
             [] r.step = 3 ->
                  /\ tempfile' = File(r.recs)
                  /\ UNCHANGED <<datafile, durable>>
             [] r.step = 5 ->
                  /\ tempfile.exists
                  /\ datafile' = tempfile
                  /\ tempfile' = NoFile
                  /\ UNCHANGED durable
             [] r.step = LastCswStep ->
                  /\ durable' = File(r.recs)
                  /\ UNCHANGED <<datafile, tempfile>>
             [] OTHER -> UNCHANGED <<datafile, durable, tempfile>>
        /\ IF r.step = LastCswStep
           THEN cswFinished(r)
           ELSE /\ running' = Replace(r, [r EXCEPT !.step = @ + 1])
                /\ UNCHANGED <<ready, qtasks, admitSeq, buffer, loadedOk>>
        /\ UNCHANGED <<ixvars, fnvars, stvars, inMemoryOnly, workers, docs, indexes, pendingIx, nsub, nix, bufferedSet,
                       startSeq, doneSet, subs, expected>>

\* a step of the waterfall fails: the later steps do not run, callback(err).
\* A failed writeFile leaves filename~ created with part of the data.
cswStepFailed ==
    \E r \in running :
        /\ r.pc = "csw"
        /\ IF r.step = 3
           THEN \E k \in 0..(Len(r.recs) - 1) : tempfile' = File(SubSeq(r.recs, 1, k))
           ELSE UNCHANGED tempfile
        /\ running' = Replace(r, [lastArg(r) EXCEPT !.err = TRUE,
                                           !.emitted = @ + compactionDone(TRUE)])
        /\ UNCHANGED <<ixvars, fnvars, stvars, inMemoryOnly, ready, buffer, qtasks, workers, docs, indexes, datafile,
                       durable, pendingIx, histvars>>

\* a wrapper that tells the queue only about a task that succeeded
CallbackSignalsOnSuccess(err) == ~err

\* the executor's wrapper of the task's callback: setImmediate(cb) whatever
\* the arguments, then the caller's callback
CallbackSignals(err) == TRUE

\* a cb that is called at once, while the caller's callback may be executing
DeferredNot(r) == TRUE
\* setImmediate(cb): cb runs when the code that is executing, the caller's
\* callback included, has returned
Deferred(r) == ~r.calling

\* the caller's callback returns
callbackReturned ==
    \E r \in running :
        /\ r.calling
        /\ running' = Replace(r, [r EXCEPT !.calling = FALSE])
        /\ UNCHANGED <<ixvars, fnvars, stvars, inMemoryOnly, ready, buffer, qtasks, workers, docs, indexes, datafile,
                       durable, tempfile, pendingIx, histvars>>

\* the deferred cb of the executor's wrapper runs: the queue's next() takes the worker back
taskCompleted ==
    \E r \in running :
        /\ r.pc = "signalled"
        /\ CallbackSignals(r.err)
        /\ Deferred(r)
        /\ running' = running \ {r}
        /\ workers' = workers - 1
        /\ doneSet' = doneSet \cup {r.t.n}
        /\ UNCHANGED <<ixvars, fnvars, stvars, inMemoryOnly, ready, buffer, qtasks, docs, indexes, datafile, durable,
                       tempfile, pendingIx, nsub, nix, bufferedSet, admitSeq, startSeq,
                       subs, loadedOk, expected>>

(***************************************************************************)
(* The datastore after new Datastore({filename}) or new Datastore():       *)
(* no autoload, no datafile yet.                                           *)
(***************************************************************************)
Init ==
    /\ inMemoryOnly \in BOOLEAN
    /\ ready = inMemoryOnly
    /\ buffer = <<>>
    /\ qtasks = <<>>
    /\ workers = 0
    /\ running = {}
    /\ docs = NoDocs
    /\ indexes = {}
    /\ datafile = NoFile
    /\ durable = NoFile
    /\ tempfile = NoFile
    /\ pendingIx = <<>>
    /\ nsub = 0
    /\ nix = 0
    /\ bufferedSet = {}
    /\ admitSeq = <<>>
    /\ startSeq = <<>>
    /\ doneSet = {}
    /\ subs = <<>>
    /\ loadedOk = FALSE
    /\ expected = NoDocs
    /\ impl = "lib"
    /\ platform = "posix"
    /\ phase = "none"
    /\ cswStep = 0
    /\ opened = FALSE
    /\ cswData = <<>>
    /\ preWrite = NoFile
    /\ cswTrace = <<>>
    /\ cswResult = "none"
    /\ dbIndexes = <<>>
    /\ dbLines = <<>>
    /\ lastOp = <<>>
    /\ nops = 0
    /\ ttlIndexes = {}
    /\ call = NoCall

Next ==
    \/ loadDatabase
    \/ insert
    \/ update
    \/ remove
    \/ exec
    \/ compactDatafile
    \/ process
    \/ appendDone
    \/ appendFailed
    \/ loadEnsureDatafileIntegrity
    \/ readFileDone
    \/ readFileFailed
    \/ cswStepDone
    \/ cswStepFailed
    \/ callbackReturned
    \/ taskCompleted

\* the operations that are pushed through the executor
Spec == Init /\ [][Next]_vars

\* the event loop runs every callback that is pending: the worker of the
\* queue, the deferred cb, and the completion (or failure) of every file
\* operation that was issued
Fairness ==
    /\ WF_vars(process)
    /\ WF_vars(callbackReturned)
    /\ WF_vars(taskCompleted)
    /\ WF_vars(appendDone \/ appendFailed)
    /\ WF_vars(loadEnsureDatafileIntegrity)
    /\ WF_vars(readFileDone \/ readFileFailed)
    /\ WF_vars(cswStepDone \/ cswStepFailed)

SpecFair == Init /\ [][Next]_vars /\ Fairness

\* ... and the caller's direct ensureIndex / removeIndex calls
NextIndex ==
    \/ Next
    \/ ensureIndex
    \/ removeIndex
    \/ indexAppendDone

SpecIndex == Init /\ [][NextIndex]_vars

(***************************************************************************)
(* The storage module on its own: crashSafeWriteFile(filename, data) step  *)
(* by step, a kill of the process, ensureDatafileIntegrity(filename).      *)
(* A kill loses nothing the operating system already holds; a writeFile    *)
(* that was under way leaves the part of the data it had written.          *)
(***************************************************************************)
Impls == {"lib", "part_000"}
Platforms == {"posix", "win32"}
Contents == UNION {[1..k -> Vals] : k \in 0..MaxLines}

Op(op, target) == [op |-> op, target |-> target]

\* lib/storage.js: storage.exists = fs.exists, calls back with the boolean
exists(file) == file.exists

\* part_000: exists: promisfy(fs.exists); promisfy takes the first argument
\* of the callback for an error, so the promise is rejected when the file exists
existsPromise(file) == IF file.exists THEN "rejected" ELSE "resolved"

\* the fourth function of the waterfall: lib/storage.js flushes tempFilename,
\* part_000 flushes filename
cswFlushTemp(i) ==
    IF i = "lib" THEN Op("flushToStorage", "filename~") ELSE Op("flushToStorage", "filename")

\* the file operation of each function of the waterfall
cswOp(i, k) ==
    CASE k = 1 -> Op("flushToStorage", "dirname")
      [] k = 2 -> Op("exists ? flushToStorage", "filename")
      [] k = 3 -> Op("writeFile", "filename~")
      [] k = 4 -> cswFlushTemp(i)
      [] k = 5 -> Op("rename", "filename~")
      [] OTHER -> Op("flushToStorage", "dirname")

\* flushToStorage of a directory returns at once on Windows
IsNoOp(o) == o = Op("flushToStorage", "dirname") /\ platform = "win32"

\* can the step succeed / fail, given the files
CanSucceed(k) ==
    CASE k = 2 -> IF impl = "lib" THEN TRUE ELSE existsPromise(datafile) = "resolved"
      [] k = 4 -> IF cswFlushTemp(impl).target = "filename" THEN datafile.exists
                  ELSE tempfile.exists
      [] k = 5 -> tempfile.exists
      [] OTHER -> TRUE

CanFail(k) ==
    CASE k = 2 -> IF impl = "lib" THEN exists(datafile) ELSE existsPromise(datafile) = "rejected"
      [] OTHER -> ~IsNoOp(cswOp(impl, k))

crashSafeWriteFile ==
    /\ phase = "idle"
    /\ \E data \in Contents : cswData' = data
    /\ preWrite' = datafile
    /\ phase' = "writing"
    /\ cswStep' = 1
    /\ UNCHANGED <<dsvars, histvars, ixvars, fnvars, impl, platform, opened, cswTrace, cswResult>>

\* the callback of the waterfall after its last function
cswReturn(k, res) ==
    /\ cswStep' = k
    /\ phase' = "returned"
    /\ cswResult' = res

\* a function of the waterfall other than writeFile succeeds
cswStepOk ==
    /\ phase = "writing"
    /\ cswStep # 3
    /\ CanSucceed(cswStep)
    /\ cswTrace' = Append(cswTrace, cswOp(impl, cswStep))
    /\ IF cswStep = 5
       THEN datafile' = tempfile /\ tempfile' = NoFile
       ELSE UNCHANGED <<datafile, tempfile>>
    /\ IF cswStep = LastCswStep
       THEN cswReturn(cswStep, "ok")
       ELSE cswStep' = cswStep + 1 /\ UNCHANGED <<phase, cswResult>>
    /\ UNCHANGED <<inMemoryOnly, ready, buffer, qtasks, workers, running, docs, indexes,
                   durable, pendingIx, histvars, ixvars, fnvars, impl, platform, opened, cswData, preWrite>>

\* fs.writeFile(filename~): creates or truncates the file ...
writeFileOpen ==
    /\ phase = "writing"
    /\ cswStep = 3
    /\ ~opened
    /\ opened' = TRUE
    /\ tempfile' = File(<<>>)
    /\ cswTrace' = Append(cswTrace, cswOp(impl, cswStep))
    /\ UNCHANGED <<inMemoryOnly, ready, buffer, qtasks, workers, running, docs, indexes,
                   datafile, durable, pendingIx, histvars, ixvars, fnvars, impl, platform, phase, cswStep,
                   cswData, preWrite, cswResult>>

\* ... writes the data piece by piece ...
writeFileChunk ==
    /\ phase = "writing"
    /\ cswStep = 3
    /\ opened
    /\ Len(tempfile.data) < Len(cswData)
    /\ tempfile' = File(SubSeq(cswData, 1, Len(tempfile.data) + 1))
    /\ UNCHANGED <<inMemoryOnly, ready, buffer, qtasks, workers, running, docs, indexes,
                   datafile, durable, pendingIx, histvars, ixvars, fnvars, stvars>>

\* ... and calls back
writeFileDone ==
    /\ phase = "writing"
    /\ cswStep = 3
    /\ opened
    /\ tempfile.data = cswData
    /\ cswStep' = cswStep + 1
    /\ UNCHANGED <<dsvars, histvars, ixvars, fnvars, impl, platform, phase, opened, cswData, preWrite,
                   cswTrace, cswResult>>

\* a function of the waterfall fails: the waterfall calls back with the error
cswStepErr ==
    /\ phase = "writing"
    /\ CanFail(cswStep)
    /\ cswTrace' = IF cswStep = 3 /\ opened THEN cswTrace
                   ELSE Append(cswTrace, cswOp(impl, cswStep))
    /\ cswReturn(cswStep, "err")
    /\ UNCHANGED <<dsvars, histvars, ixvars, fnvars, impl, platform, opened, cswData, preWrite>>

\* the process is killed while crashSafeWriteFile is under way
kill ==
    /\ phase = "writing"
    /\ phase' = "killed"
    /\ UNCHANGED <<dsvars, histvars, ixvars, fnvars, impl, platform, cswStep, opened, cswData, preWrite,
                   cswTrace, cswResult>>

\* storage.ensureDatafileIntegrity of part_000: the files it leaves
ensureDatafileIntegrityPart000(file, temp) ==
    IF existsPromise(file) = "rejected"
    THEN [filename |-> file, tempFilename |-> temp]
    ELSE IF existsPromise(temp) = "rejected"
         THEN [filename |-> file, tempFilename |-> temp]
         ELSE [filename |-> File(<<>>), tempFilename |-> temp]

\* the next start of the program: ensureDatafileIntegrity(filename)
recover ==
    /\ phase = "killed"
    /\ phase' = "recovered"
    /\ LET res == IF impl = "lib" THEN ensureDatafileIntegrity(datafile, tempfile)
                  ELSE ensureDatafileIntegrityPart000(datafile, tempfile)
       IN /\ datafile' = res.filename
          /\ tempfile' = res.tempFilename
    /\ UNCHANGED <<inMemoryOnly, ready, buffer, qtasks, workers, running, docs, indexes,
                   durable, pendingIx, histvars, ixvars, fnvars, impl, platform, cswStep, opened, cswData,
                   preWrite, cswTrace, cswResult>>

\* a storage module, a platform, and filename absent or with some content
InitStorage ==
    /\ inMemoryOnly = FALSE
    /\ ready = FALSE
    /\ buffer = <<>>
    /\ qtasks = <<>>
    /\ workers = 0
    /\ running = {}
    /\ docs = NoDocs
    /\ indexes = {}
    /\ datafile \in {NoFile} \cup {File(d) : d \in Contents}
    /\ durable = NoFile
    /\ tempfile = NoFile
    /\ pendingIx = <<>>
    /\ nsub = 0
    /\ nix = 0
    /\ bufferedSet = {}
    /\ admitSeq = <<>>
    /\ startSeq = <<>>
    /\ doneSet = {}
    /\ subs = <<>>
    /\ loadedOk = FALSE
    /\ expected = NoDocs
    /\ impl \in Impls
    /\ platform \in Platforms
    /\ phase = "idle"
    /\ cswStep = 0
    /\ opened = FALSE
    /\ cswData = <<>>
    /\ preWrite = NoFile
    /\ cswTrace = <<>>
    /\ cswResult = "none"
    /\ dbIndexes = <<>>
    /\ dbLines = <<>>
    /\ lastOp = <<>>
    /\ nops = 0
    /\ ttlIndexes = {}
    /\ call = NoCall

NextStorage ==
    \/ crashSafeWriteFile
    \/ cswStepOk
    \/ writeFileOpen
    \/ writeFileChunk
    \/ writeFileDone
    \/ cswStepErr
    \/ kill
    \/ recover

SpecStorage == InitStorage /\ [][NextStorage]_vars

(***************************************************************************)
(* The index layer: Datastore.indexes with the content of every index.     *)
(* A document is {_id, f}; an index is {fieldName, unique, sparse} and its *)
(* tree, the documents it holds (the key of a document in the tree is its  *)
(* value for fieldName).  Datastore.indexes is the sequence of the indexes *)
(* in the order of Object.keys.                                            *)
(***************************************************************************)
FVals == {"x", "y"}

Doc(id, f) == [_id |-> id, f |-> f]

\* Values of the field f other than the strings of FVals: two dates, and
\* two objects with the one field g, which holds a date or a string.
Dates == {"Date(1000)", "Date(3000)"}
ObjectsWithG == {"{g: Date(1000)}", "{g: 'x'}"}
\* util.isDate(v)
isDate(v) == v \in Dates
\* Date.prototype.getTime()
getTime(v) == IF v = "Date(1000)" THEN 1000 ELSE 3000
\* v.g: what a value holds under the name g
FieldG(v) ==
    CASE v = "{g: Date(1000)}" -> "Date(1000)"
      [] v = "{g: 'x'}" -> "x"
      [] OTHER -> Undefined

\* model.getDotValue(doc, fieldName): the name is split at the dots
getDotValue(doc, fieldName) ==
    CASE fieldName = "_id" -> doc._id
      [] fieldName = "f.g" -> FieldG(doc.f)
      [] OTHER -> doc.f

\* new Index(options): unique and sparse default to false, the tree is empty
NewIndex(fieldName, unique, sparse) ==
    [fieldName |-> fieldName, unique |-> unique, sparse |-> sparse, tree |-> {}]

\* the result of an operation that can throw
Ok(v) == [err |-> FALSE, v |-> v]
Thrown(v) == [err |-> TRUE, v |-> v]

\* an index that never refuses a key
TreeInsertNoCheck(ix, doc) == Ok([ix EXCEPT !.tree = @ \cup {doc}])

\* Index.insert of one document: tree.insert(key, doc) throws on a key the
\* unique tree already holds
IndexInsert(ix, doc) ==
    LET key == getDotValue(doc, ix.fieldName)
    IN IF key = Undefined /\ ix.sparse THEN Ok(ix)
       ELSE IF ix.unique /\ \E d \in ix.tree : getDotValue(d, ix.fieldName) = key
            THEN Thrown(ix)
            ELSE Ok([ix EXCEPT !.tree = @ \cup {doc}])

\* Index.remove of one document: tree.delete(key, doc)
IndexRemove(ix, doc) ==
    IF getDotValue(doc, ix.fieldName) = Undefined /\ ix.sparse THEN ix
    ELSE [ix EXCEPT !.tree = @ \ {doc}]

\* Index.remove of an array
RECURSIVE IndexRemoveAll(_, _, _)
IndexRemoveAll(ix, ds, n) ==
    IF n = 0 THEN ix ELSE IndexRemove(IndexRemoveAll(ix, ds, n - 1), ds[n])

\* Index.insertMultipleDocs: the documents one after the other; when one is
\* refused, the ones inserted before it are removed again
RECURSIVE InsertFrom(_, _, _)
InsertFrom(ix, ds, i) ==
    IF i > Len(ds) THEN Ok(ix)
    ELSE LET r == IndexInsert(ix, ds[i])
         IN IF r.err THEN Thrown(IndexRemoveAll(r.v, ds, i - 1))
            ELSE InsertFrom(r.v, ds, i + 1)

insertMultipleDocs(ix, ds) == InsertFrom(ix, ds, 1)

\* Index.reset(newData)
IndexReset(ix, newData) == insertMultipleDocs([ix EXCEPT !.tree = {}], newData)

\* insert after insert, up to the first one that throws
RECURSIVE InsertEach(_, _, _)
InsertEach(ix, ds, i) ==
    IF i > Len(ds) THEN ix
    ELSE LET r == IndexInsert(ix, ds[i])
         IN IF r.err THEN r.v ELSE InsertEach(r.v, ds, i + 1)

Olds(pairs) == [i \in 1..Len(pairs) |-> pairs[i].oldDoc]
News(pairs) == [i \in 1..Len(pairs) |-> pairs[i].newDoc]

\* the new documents one after the other; when one is refused, the ones
\* inserted before it are removed and all the old ones inserted again
RECURSIVE UpdateFrom(_, _, _)
UpdateFrom(ix, pairs, i) ==
    IF i > Len(pairs) THEN Ok(ix)
    ELSE LET r == IndexInsert(ix, pairs[i].newDoc)
         IN IF r.err
            THEN Thrown(InsertEach(IndexRemoveAll(r.v, News(pairs), i - 1), Olds(pairs), 1))
            ELSE UpdateFrom(r.v, pairs, i + 1)

\* Index.updateMultipleDocs
updateMultipleDocs(ix, pairs) ==
    UpdateFrom(IndexRemoveAll(ix, Olds(pairs), Len(pairs)), pairs, 1)

\* Index.revertUpdate of an array of pairs
revertUpdate(ix, pairs) ==
    updateMultipleDocs(ix, [i \in 1..Len(pairs) |->
                               [oldDoc |-> pairs[i].newDoc, newDoc |-> pairs[i].oldDoc]]).v

(***************************************************************************)
(* Datastore: the operations over all the indexes.                         *)
(***************************************************************************)
IndexNames(ixs) == {ixs[i].fieldName : i \in 1..Len(ixs)}
IndexPos(ixs, fieldName) == CHOOSE i \in 1..Len(ixs) : ixs[i].fieldName = fieldName

\* Datastore.removeFromIndexes: forEach index, remove(doc)
removeFromIndexes(ixs, doc) == [i \in 1..Len(ixs) |-> IndexRemove(ixs[i], doc)]

\* an addToIndexes that leaves the earlier indexes as they are
RemoveBeforeNone(ixs, doc, failingIndex) == ixs

\* the rollback loop of addToIndexes: remove(doc) in the indexes before failingIndex
RemoveBefore(ixs, doc, failingIndex) ==
    [i \in 1..Len(ixs) |-> IF i < failingIndex THEN IndexRemove(ixs[i], doc) ELSE ixs[i]]

\* Datastore.addToIndexes for one document
RECURSIVE AddFrom(_, _, _)
AddFrom(ixs, doc, i) ==
    IF i > Len(ixs) THEN Ok(ixs)
    ELSE LET r == IndexInsert(ixs[i], doc)
         IN IF r.err THEN Thrown(RemoveBefore(ixs, doc, i))
            ELSE AddFrom([ixs EXCEPT ![i] = r.v], doc, i + 1)

addToIndexes(ixs, doc) == AddFrom(ixs, doc, 1)

RECURSIVE RemoveDocs(_, _, _)
RemoveDocs(ixs, ds, n) ==
    IF n = 0 THEN ixs ELSE removeFromIndexes(RemoveDocs(ixs, ds, n - 1), ds[n])

\* Datastore._insertMultipleDocsInCache
RECURSIVE InsertDocsFrom(_, _, _)
InsertDocsFrom(ixs, ds, i) ==
    IF i > Len(ds) THEN Ok(ixs)
    ELSE LET r == addToIndexes(ixs, ds[i])
         IN IF r.err THEN Thrown(RemoveDocs(r.v, ds, i - 1))
            ELSE InsertDocsFrom(r.v, ds, i + 1)

insertMultipleDocsInCache(ixs, ds) == InsertDocsFrom(ixs, ds, 1)

\* an updateIndexes that leaves the earlier indexes as they are
RevertBeforeNone(ixs, pairs, failingIndex) == ixs

\* the rollback loop of updateIndexes: revertUpdate in the indexes before failingIndex
RevertBefore(ixs, pairs, failingIndex) ==
    [i \in 1..Len(ixs) |-> IF i < failingIndex THEN revertUpdate(ixs[i], pairs) ELSE ixs[i]]

\* Datastore.updateIndexes with the array of modifications
RECURSIVE UpdateIndexesFrom(_, _, _)
UpdateIndexesFrom(ixs, pairs, i) ==
    IF i > Len(ixs) THEN Ok(ixs)
    ELSE LET r == updateMultipleDocs(ixs[i], pairs)
         IN IF r.err THEN Thrown(RevertBefore([ixs EXCEPT ![i] = r.v], pairs, i))
            ELSE UpdateIndexesFrom([ixs EXCEPT ![i] = r.v], pairs, i + 1)

updateIndexes(ixs, pairs) == UpdateIndexesFrom(ixs, pairs, 1)

\* Datastore.resetIndexes(newData): forEach index, reset(newData); the first
\* index that throws ends the loop
RECURSIVE ResetFrom(_, _, _)
ResetFrom(ixs, newData, i) ==
    IF i > Len(ixs) THEN Ok(ixs)
    ELSE LET r == IndexReset(ixs[i], newData)
         IN IF r.err THEN Thrown([ixs EXCEPT ![i] = r.v])
            ELSE ResetFrom([ixs EXCEPT ![i] = r.v], newData, i + 1)

resetIndexes(ixs, newData) == ResetFrom(ixs, newData, 1)

\* all the documents an index can hold, by _id and then by f: those the
\* operations of the model are given, and those of a datafile written by an
\* earlier session (_id "b", a date in f)
StoredIdOrder == IdOrder \o <<"b">>
FOrder == <<Undefined, "x", "y", "Date(1000)">>
DocOrder ==
    [k \in 1..(Len(StoredIdOrder) * Len(FOrder)) |->
        Doc(StoredIdOrder[((k - 1) \div Len(FOrder)) + 1],
            FOrder[((k - 1) % Len(FOrder)) + 1])]
\* the documents the operations of the model are given
Docs == {Doc(id, f) : id \in Ids, f \in {Undefined, "x", "y"}}

RECURSIVE SortDocs(_, _)
SortDocs(ds, k) ==
    IF k = 0 THEN <<>>
    ELSE SortDocs(ds, k - 1) \o (IF DocOrder[k] \in ds THEN <<DocOrder[k]>> ELSE <<>>)

\* Datastore.getAllData: indexes._id.getAll(), in the order of the keys
getAllData(ixs) == SortDocs(ixs[IndexPos(ixs, "_id")].tree, Len(DocOrder))

(***************************************************************************)
(* model.modify(obj, updateQuery).  An update query is a replacement       *)
(* {_id?, f?} or one modifier on one field: {$set: {field: val}},          *)
(* {$unset: {field: true}}, {$inc: {_id: 1}}; bad: a key that checkObject  *)
(* refuses is in it.                                                       *)
(***************************************************************************)
Replacement(id, f, bad) ==
    [kind |-> "replace", id |-> id, f |-> f, bad |-> bad, field |-> "none"]
Modifier(kind, field, val) ==
    [kind |-> kind, id |-> IF field = "_id" THEN val ELSE Undefined,
     f |-> IF field = "f" THEN val ELSE Undefined, bad |-> FALSE, field |-> field]

\* the modifiers applied to a copy of obj
ApplyModifier(obj, uq) ==
    CASE uq.kind = "$set" -> Ok(IF uq.field = "_id" THEN [obj EXCEPT !._id = uq.id]
                                ELSE [obj EXCEPT !.f = uq.f])
      [] uq.kind = "$unset" -> Ok(IF uq.field = "_id" THEN [obj EXCEPT !._id = Undefined]
                                  ELSE [obj EXCEPT !.f = Undefined])
      [] OTHER -> Thrown(obj)

\* a modify without the final comparison of the _id
SameIdUnchecked(obj, newDoc) == Ok(newDoc)

\* model.modify: if (obj._id !== newDoc._id) throw
SameId(obj, newDoc) == IF obj._id # newDoc._id THEN Thrown(obj) ELSE Ok(newDoc)

modify(obj, uq) ==
    IF uq.kind = "replace"
    THEN IF uq.id # Undefined /\ uq.id # obj._id THEN Thrown(obj)
         ELSE IF uq.bad THEN Thrown(obj)
              ELSE SameId(obj, Doc(obj._id, uq.f))
    ELSE LET r == ApplyModifier(obj, uq)
         IN IF r.err THEN r ELSE SameId(obj, r.v)

(***************************************************************************)
(* The datafile line by line, with the content of the documents and the    *)
(* options of the indexes.                                                 *)
(***************************************************************************)
\* expireAfterSeconds: <<>> when the options do not have it, <<n>> for n
TtlOptions(fieldName, unique, sparse, expireAfterSeconds) ==
    [fieldName |-> fieldName, unique |-> unique, sparse |-> sparse,
     expireAfterSeconds |-> expireAfterSeconds]
Options(fieldName, unique, sparse) == TtlOptions(fieldName, unique, sparse, <<>>)
NoOptions == Options(Undefined, FALSE, FALSE)

DocLine(doc) == [kind |-> "doc", doc |-> doc, options |-> NoOptions]
DeletedLine(id) == [kind |-> "$$deleted", doc |-> Doc(id, Undefined), options |-> NoOptions]
IndexCreatedLine(o) == [kind |-> "$$indexCreated", doc |-> Doc(Undefined, Undefined), options |-> o]
IndexRemovedLine(fieldName) ==
    [kind |-> "$$indexRemoved", doc |-> Doc(Undefined, Undefined),
     options |-> Options(fieldName, FALSE, FALSE)]

\* indexes[o.fieldName] = o: an existing key keeps its place, a new one is last
SetOptions(os, o) ==
    IF \E i \in 1..Len(os) : os[i].fieldName = o.fieldName
    THEN [i \in 1..Len(os) |-> IF os[i].fieldName = o.fieldName THEN o ELSE os[i]]
    ELSE Append(os, o)

\* Persistence.treatRawData, one line: dataById and indexes after it
TreatDataLine(acc, l) ==
    IF Truthy(l.doc._id)
    THEN IF l.kind = "$$deleted"
         THEN [acc EXCEPT !.data = {d \in @ : d._id # l.doc._id}]
         ELSE [acc EXCEPT !.data = {d \in @ : d._id # l.doc._id} \cup {l.doc}]
    ELSE IF l.kind = "$$indexCreated"
         THEN [acc EXCEPT !.indexes = SetOptions(@, l.options)]
         ELSE IF l.kind = "$$indexRemoved"
              THEN [acc EXCEPT !.indexes =
                       SelectSeq(@, LAMBDA o : o.fieldName # l.options.fieldName)]
              ELSE acc

RECURSIVE TreatDataLines(_, _)
TreatDataLines(ls, k) ==
    IF k = 0 THEN [data |-> {}, indexes |-> <<>>]
    ELSE TreatDataLine(TreatDataLines(ls, k - 1), ls[k])

\* Persistence.treatRawData with the documents and the index options
treatData(ls) == TreatDataLines(ls, Len(ls))

\* Persistence.persistCachedDatabase: the documents, then the indexes other than _id
RECURSIVE IndexOptionLines(_, _)
IndexOptionLines(ixs, k) ==
    IF k = 0 THEN <<>>
    ELSE IndexOptionLines(ixs, k - 1) \o
         (IF ixs[k].fieldName # "_id"
          THEN <<IndexCreatedLine(Options(ixs[k].fieldName, ixs[k].unique, ixs[k].sparse))>>
          ELSE <<>>)

CachedLines(ixs) ==
    [i \in 1..Len(getAllData(ixs)) |-> DocLine(getAllData(ixs)[i])] \o
    IndexOptionLines(ixs, Len(ixs))

(***************************************************************************)
(* The operations on the index layer of a loaded persistent datastore.     *)
(* Each runs as one executor task (or, for ensureIndex and removeIndex, as *)
(* one synchronous call) and ends with the persistNewState that may fail.  *)
(* lastOp keeps what the operation was given and the state it started in.  *)
(***************************************************************************)
LastOp(op, err, cause, arg, matched) ==
    [op |-> op, err |-> err, cause |-> cause, arg |-> arg, matched |-> matched,
     pre |-> dbIndexes, preLines |-> dbLines,
     prev |-> IF lastOp.err THEN "failed" ELSE lastOp.op,
     num |-> Len(matched), declared |-> lastOp.declared, preTtl |-> ttlIndexes]

HasIdIndex == "_id" \in IndexNames(dbIndexes)

\* what insert is given: one document or an array of two; bad: a key that
\* checkObject refuses is in it
InsertInputs ==
    {[docs |-> <<d>>, bad |-> b] : d \in Docs, b \in BOOLEAN}
    \cup {[docs |-> ds, bad |-> FALSE] : ds \in Docs \X Docs}

DocLinesOf(ds) == [i \in 1..Len(ds) |-> DocLine(ds[i])]

\* Persistence.persistNewState: nothing to persist, or an appendFile that
\* succeeds or fails
persistNewState(newLines, op, arg, matched) ==
    \E ok \in BOOLEAN :
        /\ ok \/ newLines # <<>>
        /\ dbLines' = IF ok THEN dbLines \o newLines ELSE dbLines
        /\ lastOp' = LastOp(op, ~ok, IF ok THEN "none" ELSE "append", arg, matched)

\* what an operation on the index layer leaves alone
LayerUnchanged == UNCHANGED <<dsvars, histvars, stvars, fnvars>>
DataUnchanged == LayerUnchanged /\ UNCHANGED ttlIndexes

\* Datastore._insert
doInsert ==
    /\ nops < MaxDataOps
    /\ nops' = nops + 1
    /\ \E in \in InsertInputs :
        IF in.bad
        THEN /\ lastOp' = LastOp("insert", TRUE, "key", in, <<>>)
             /\ UNCHANGED <<dbIndexes, dbLines>>
        ELSE LET r == insertMultipleDocsInCache(dbIndexes, in.docs)
             IN /\ dbIndexes' = r.v
                /\ IF r.err
                   THEN /\ lastOp' = LastOp("insert", TRUE, "unique", in, <<>>)
                        /\ UNCHANGED dbLines
                   ELSE persistNewState(DocLinesOf(in.docs), "insert", in, <<>>)
    /\ DataUnchanged

\* a selection that takes every matching document whatever multi is
MatchedAll(ixs, q, multi) ==
    SelectSeq(getAllData(ixs), LAMBDA d : q = Undefined \/ d._id = q)

\* Datastore.getCandidates and model.match for the query {} (q = Undefined) or
\* {_id: q}: the documents _update and _remove act on are the candidates that
\* match, the first one only without multi (numReplaced === 0 || multi)
Matched(ixs, q, multi) ==
    LET all == SelectSeq(getAllData(ixs), LAMBDA d : q = Undefined \/ d._id = q)
    IN IF multi \/ all = <<>> THEN all ELSE <<all[1]>>

UpdateQueries ==
    {Replacement(id, f, FALSE) : id \in Ids \cup {Undefined}, f \in FVals \cup {Undefined}}
    \cup {Replacement(Undefined, Undefined, TRUE)}
    \cup {Modifier("$set", "f", f) : f \in FVals}
    \cup {Modifier("$set", "_id", id) : id \in Ids}
    \cup {Modifier("$unset", fld, Undefined) : fld \in {"_id", "f"}}
    \cup {Modifier("$inc", "_id", Undefined)}

\* a query and the multi option; with {_id: id} multi makes no difference
Selections ==
    {[q |-> Undefined, multi |-> m] : m \in BOOLEAN} \cup {[q |-> id, multi |-> FALSE] : id \in Ids}

\* the preparation loop of _update: model.modify of every matched document
Modifications(ms, uq) ==
    IF \E i \in 1..Len(ms) : modify(ms[i], uq).err THEN Thrown(<<>>)
    ELSE Ok([i \in 1..Len(ms) |-> [oldDoc |-> ms[i], newDoc |-> modify(ms[i], uq).v]])

\* Datastore._update without upsert
doUpdate ==
    /\ nops < MaxDataOps
    /\ HasIdIndex
    /\ nops' = nops + 1
    /\ \E sel \in Selections, uq \in UpdateQueries :
        LET ms == Matched(dbIndexes, sel.q, sel.multi)
            arg == [q |-> sel.q, uq |-> uq, multi |-> sel.multi]
            mods == Modifications(ms, uq)
        IN IF mods.err
           THEN /\ lastOp' = LastOp("update", TRUE, IF uq.bad THEN "key" ELSE "modify", arg, ms)
                /\ UNCHANGED <<dbIndexes, dbLines>>
           ELSE LET r == updateIndexes(dbIndexes, mods.v)
                IN /\ dbIndexes' = r.v
                   /\ IF r.err
                      THEN /\ lastOp' = LastOp("update", TRUE, "unique", arg, ms)
                           /\ UNCHANGED dbLines
                      ELSE persistNewState(DocLinesOf(News(mods.v)), "update", arg, ms)
    /\ DataUnchanged

\* Datastore._remove
doRemove ==
    /\ nops < MaxDataOps
    /\ HasIdIndex
    /\ nops' = nops + 1
    /\ \E sel \in Selections :
        LET ms == Matched(dbIndexes, sel.q, sel.multi)
        IN /\ dbIndexes' = RemoveDocs(dbIndexes, ms, Len(ms))
           /\ persistNewState([i \in 1..Len(ms) |-> DeletedLine(ms[i]._id)], "remove",
                              sel, ms)
    /\ DataUnchanged

\* this.ttlIndexes[options.fieldName] = options.expireAfterSeconds, when the
\* options have it
SetTtl(ttl, o) ==
    IF o.expireAfterSeconds = <<>> THEN ttl
    ELSE {t \in ttl : t.fieldName # o.fieldName}
         \cup {[fieldName |-> o.fieldName, expireAfterSeconds |-> o.expireAfterSeconds[1]]}

\* Datastore.ensureIndex({fieldName, unique, sparse, expireAfterSeconds});
\* seconds: the values of expireAfterSeconds the caller gives.
\* declared (of lastOp): the TTL settings of the calls that reported success,
\* less the fields of the removeIndex calls since
EnsureIndexOn(fieldName, seconds) ==
    /\ nops < MaxDataOps
    /\ nops' = nops + 1
    /\ \E unique \in BOOLEAN, sparse \in BOOLEAN, e \in seconds :
        LET o == TtlOptions(fieldName, unique, sparse, e)
        IN IF ~Truthy(fieldName)
           THEN /\ lastOp' = LastOp("ensureIndex", TRUE, "missingFieldName", o, <<>>)
                /\ UNCHANGED <<dbIndexes, dbLines, ttlIndexes>>
           ELSE IF fieldName \in IndexNames(dbIndexes)
           THEN /\ lastOp' = LastOp("ensureIndex", FALSE, "exists", o, <<>>)
                /\ UNCHANGED <<dbIndexes, dbLines, ttlIndexes>>
           ELSE LET added == Append(dbIndexes, NewIndex(fieldName, unique, sparse))
                IN /\ ttlIndexes' = SetTtl(ttlIndexes, o)
                   /\ IF "_id" \notin IndexNames(added)
                      THEN /\ lastOp' = LastOp("ensureIndex", TRUE, "TypeError", o, <<>>)
                           /\ UNCHANGED <<dbIndexes, dbLines>>
                      ELSE LET r == insertMultipleDocs(added[Len(added)], getAllData(added))
                           IN IF r.err
                              THEN /\ lastOp' = LastOp("ensureIndex", TRUE, "unique", o, <<>>)
                                   /\ UNCHANGED <<dbIndexes, dbLines>>
                              ELSE /\ dbIndexes' = [added EXCEPT ![Len(added)] = r.v]
                                   /\ \E ok \in BOOLEAN :
                                        /\ dbLines' = IF ok
                                                      THEN Append(dbLines, IndexCreatedLine(o))
                                                      ELSE dbLines
                                        /\ lastOp' =
                                            [LastOp("ensureIndex", ~ok,
                                                    IF ok THEN "none" ELSE "append", o, <<>>)
                                             EXCEPT !.declared = IF ok THEN SetTtl(@, o) ELSE @]
    /\ LayerUnchanged

\* Datastore.removeIndex(fieldName)
RemoveIndexOn(fieldName) ==
    /\ nops < MaxDataOps
    /\ nops' = nops + 1
    /\ dbIndexes' = SelectSeq(dbIndexes, LAMBDA ix : ix.fieldName # fieldName)
    /\ \E ok \in BOOLEAN :
        /\ dbLines' = IF ok THEN Append(dbLines, IndexRemovedLine(fieldName)) ELSE dbLines
        /\ lastOp' = [LastOp("removeIndex", ~ok, IF ok THEN "none" ELSE "append",
                             fieldName, <<>>)
                      EXCEPT !.declared = {t \in @ : t.fieldName # fieldName}]
    /\ DataUnchanged

doEnsureIndex == \E fieldName \in {"_id", "f"} : EnsureIndexOn(fieldName, {<<>>})
doRemoveIndex == RemoveIndexOn("f")
removeIdIndex == RemoveIndexOn("_id")

\* loadDatabase: self.db.indexes[key] = new Index(options) for every index of
\* the datafile
RECURSIVE RecreateIndexes(_, _, _)
RecreateIndexes(ixs, os, k) ==
    IF k = 0 THEN ixs
    ELSE LET prev == RecreateIndexes(ixs, os, k - 1)
             ix == NewIndex(os[k].fieldName, os[k].unique, os[k].sparse)
         IN IF os[k].fieldName \in IndexNames(prev)
            THEN [prev EXCEPT ![IndexPos(prev, os[k].fieldName)] = ix]
            ELSE Append(prev, ix)

\* the indexes of a datastore just constructed
ConstructedIndexes == <<NewIndex("_id", TRUE, FALSE)>>

\* Persistence.loadDatabase, on this datastore or (fresh) on a new Datastore of
\* the same file; the read and the rewrite of the datafile can fail
\* a write that adds the data to what the file holds
RewrittenAppending(old, data) == old \o data
\* storage.crashSafeWriteFile when it succeeds: the data are written to the
\* temporary file, which is renamed over the datafile, so the datafile holds
\* the data and nothing of what it held
Rewritten(old, data) == data

\* a catch that keeps the indexes as the failed resetIndexes left them
RollbackNone(ixs) == ixs
\* loadDatabase's catch: self.db.resetIndexes(), "Rollback any index which
\* didn't fail"
Rollback(ixs) == resetIndexes(ixs, <<>>).v

\* what a load did besides the indexes and the lines: whether it called
\* persistCachedDatabase, whether it called executor.processBuffer
LoadDid(compacted, processBuffer) ==
    [compacted |-> compacted, processBuffer |-> processBuffer]

\* io "treatRawData": more of the lines readFile returned fail to parse than
\* the threshold allows, treatRawData throws
doLoad ==
    /\ nops < MaxDataOps
    /\ nops' = nops + 1
    /\ \E fresh \in BOOLEAN, io \in {"ok", "readFile", "treatRawData", "crashSafeWriteFile"} :
        /\ fresh \/ HasIdIndex
        /\ ttlIndexes' = IF fresh THEN {} ELSE ttlIndexes
        /\ LET emptied == resetIndexes(IF fresh THEN ConstructedIndexes ELSE dbIndexes, <<>>).v
               treatedData == treatData(dbLines)
               recreated == RecreateIndexes(emptied, treatedData.indexes,
                                            Len(treatedData.indexes))
               r == resetIndexes(recreated, SortDocs(treatedData.data, Len(DocOrder)))
           IN IF io \in {"readFile", "treatRawData"}
              THEN /\ dbIndexes' = emptied
                   /\ lastOp' = LastOp("load", TRUE, io, fresh, <<>>) @@ LoadDid(FALSE, FALSE)
                   /\ UNCHANGED dbLines
              ELSE IF r.err
                   THEN /\ io = "ok"
                        /\ dbIndexes' = Rollback(r.v)
                        /\ lastOp' = LastOp("load", TRUE, "unique", fresh, <<>>)
                                            @@ LoadDid(FALSE, FALSE)
                        /\ UNCHANGED dbLines
                   ELSE /\ dbIndexes' = r.v
                        /\ dbLines' = IF io = "ok"
                                     THEN Rewritten(dbLines, CachedLines(r.v))
                                     ELSE dbLines
                        /\ lastOp' = LastOp("load", io # "ok", io, fresh, <<>>)
                                            @@ LoadDid(TRUE, io = "ok")
    /\ LayerUnchanged

\* Persistence.persistCachedDatabase as the task of compactDatafile: the
\* datafile is rewritten from the indexes, or crashSafeWriteFile fails
doCompact ==
    /\ nops < MaxDataOps
    /\ HasIdIndex
    /\ nops' = nops + 1
    /\ \E ok \in BOOLEAN :
        /\ dbLines' = IF ok
                      THEN Rewritten(dbLines, CachedLines(dbIndexes))
                      ELSE dbLines
        /\ lastOp' = LastOp("compact", ~ok, IF ok THEN "none" ELSE "crashSafeWriteFile",
                            <<>>, <<>>)
    /\ UNCHANGED dbIndexes
    /\ DataUnchanged

\* a persistent datastore with these indexes over a datafile of these lines
InitLayer(ixs, lines) ==
    /\ inMemoryOnly = FALSE
    /\ ready = TRUE
    /\ buffer = <<>>
    /\ qtasks = <<>>
    /\ workers = 0
    /\ running = {}
    /\ docs = NoDocs
    /\ indexes = {}
    /\ datafile = NoFile
    /\ durable = NoFile
    /\ tempfile = NoFile
    /\ pendingIx = <<>>
    /\ nsub = 0
    /\ nix = 0
    /\ bufferedSet = {}
    /\ admitSeq = <<>>
    /\ startSeq = <<>>
    /\ doneSet = {}
    /\ subs = <<>>
    /\ loadedOk = FALSE
    /\ expected = NoDocs
    /\ impl = "lib"
    /\ platform = "posix"
    /\ phase = "none"
    /\ cswStep = 0
    /\ opened = FALSE
    /\ cswData = <<>>
    /\ preWrite = NoFile
    /\ cswTrace = <<>>
    /\ cswResult = "none"
    /\ dbIndexes = ixs
    /\ dbLines = lines
    /\ lastOp = [op |-> "none", err |-> FALSE, cause |-> "none", arg |-> <<>>,
                 matched |-> <<>>, pre |-> ixs, preLines |-> lines,
                 prev |-> "none", num |-> 0, declared |-> {}, preTtl |-> {}]
    /\ nops = 0
    /\ ttlIndexes = {}
    /\ call = NoCall

\* a persistent datastore just constructed and loaded from an empty datafile
InitData == InitLayer(ConstructedIndexes, <<>>)

NextData ==
    \/ doInsert
    \/ doUpdate
    \/ doRemove
    \/ doEnsureIndex
    \/ doRemoveIndex
    \/ doLoad
    \/ doCompact

SpecData == InitData /\ [][NextData]_vars

NextIdIndex ==
    \/ NextData
    \/ removeIdIndex

SpecIdIndex == InitData /\ [][NextIdIndex]_vars

(***************************************************************************)
(* Datastore._update with the option upsert.                               *)
(***************************************************************************)
\* an upsert that inserts whatever the cursor found
UpsertAlways(found) == TRUE
\* the cursor with limit 1 found no document: docs.length === 1 is false
UpsertNeeded(found) == found = <<>>

\* the document to insert: updateQuery itself when checkObject accepts it,
\* else model.modify of the strict-key copy of the query
toBeInserted(q, uq) ==
    IF uq.kind = "replace" /\ ~uq.bad
    THEN Ok(Doc(uq.id, uq.f))
    ELSE modify(Doc(q, Undefined), uq)

\* prepareDocumentForInsertion: createNewId() gives an _id that is not in use
PreparedIds(ixs, doc) ==
    IF doc._id # Undefined THEN {doc._id}
    ELSE Ids \ {d._id : d \in ixs[IndexPos(ixs, "_id")].tree}

\* Datastore._update(query, updateQuery, {multi, upsert: true})
doUpsert ==
    /\ nops < MaxDataOps
    /\ HasIdIndex
    /\ nops' = nops + 1
    /\ \E sel \in Selections, uq \in UpdateQueries :
        LET arg == [q |-> sel.q, uq |-> uq, multi |-> sel.multi, upsert |-> TRUE]
            found == Matched(dbIndexes, sel.q, FALSE)
        IN IF UpsertNeeded(found)
           THEN LET tb == toBeInserted(sel.q, uq)
                IN IF tb.err
                   THEN /\ lastOp' = LastOp("upsert", TRUE, "modify", arg, <<>>)
                        /\ UNCHANGED <<dbIndexes, dbLines>>
                   ELSE \E id \in PreparedIds(dbIndexes, tb.v) :
                        LET newDoc == Doc(id, tb.v.f)
                            r == addToIndexes(dbIndexes, newDoc)
                        IN /\ dbIndexes' = r.v
                           /\ IF r.err
                              THEN /\ lastOp' = LastOp("upsert", TRUE, "unique", arg, <<>>)
                                   /\ UNCHANGED dbLines
                              ELSE \E ok \in BOOLEAN :
                                   /\ dbLines' = IF ok THEN Append(dbLines, DocLine(newDoc))
                                                  ELSE dbLines
                                   /\ lastOp' =
                                        [LastOp("upsert", ~ok, IF ok THEN "none" ELSE "append",
                                                arg, <<>>) EXCEPT !.num = IF ok THEN 1 ELSE 0]
                                        @@ [newDoc |-> newDoc]
           ELSE LET ms == Matched(dbIndexes, sel.q, sel.multi)
                    mods == Modifications(ms, uq)
                IN IF mods.err
                   THEN /\ lastOp' = LastOp("update", TRUE, IF uq.bad THEN "key" ELSE "modify",
                                            arg, ms)
                        /\ UNCHANGED <<dbIndexes, dbLines>>
                   ELSE LET r == updateIndexes(dbIndexes, mods.v)
                        IN /\ dbIndexes' = r.v
                           /\ IF r.err
                              THEN /\ lastOp' = LastOp("update", TRUE, "unique", arg, ms)
                                   /\ UNCHANGED dbLines
                              ELSE persistNewState(DocLinesOf(News(mods.v)), "update", arg, ms)
    /\ DataUnchanged

NextUpsert ==
    \/ doInsert
    \/ doUpsert
    \/ doRemove
    \/ doEnsureIndex
SpecUpsert == InitData /\ [][NextUpsert]_vars

(***************************************************************************)
(* Functions on their own: each action calls one function with arguments   *)
(* drawn from a bounded set and records the call.                          *)
(***************************************************************************)
CallsUnchanged == UNCHANGED <<dsvars, histvars, stvars, ixvars>>

\* The raw data of a datafile, as a sequence of pieces of text: "\n" is the
\* newline, "ok" a text without newline that deserializes to an object,
\* "bad" a text without newline that does not.  Two pieces that follow each
\* other without a newline are one line.
RawPieces == {"ok", "bad", "\n"}
RawDatas == UNION {[1..n -> RawPieces] : n \in 0..MaxRaw}

\* String.prototype.split('\n'): the texts between the newlines
RECURSIVE Split(_)
Split(raw) ==
    IF raw = <<>> THEN << <<>> >>
    ELSE LET rest == Split(Tail(raw))
         IN IF Head(raw) = "\n"
            THEN << <<>> >> \o rest
            ELSE << <<Head(raw)>> \o Head(rest) >> \o Tail(rest)

\* the body of the try block throws: model.deserialize throws on the empty
\* text, on a text that is not JSON and on two JSON texts one after the other
LineThrows(line) == line # <<"ok">>

\* corruptAlertThreshold, in tenths; 1 is the default 0.1
PerTen == 10
CorruptAlertThresholds == {0, 1, 5, 10}

\* treatRawData's corruptItems after the loop: it starts at -1
CorruptItems(data) == -1 + Cardinality({i \in 1..Len(data) : LineThrows(data[i])})

\* Persistence.treatRawData throws the corruption error
treatRawDataThrows(rawData, corruptAlertThreshold) ==
    LET data == Split(rawData)
    IN Len(data) > 0 /\ CorruptItems(data) * PerTen > corruptAlertThreshold * Len(data)

callTreatRawData ==
    /\ call = NoCall
    /\ \E rawData \in RawDatas, th \in CorruptAlertThresholds :
        call' = [fn |-> "treatRawData", rawData |-> rawData, corruptAlertThreshold |-> th,
                 threw |-> treatRawDataThrows(rawData, th)]
    /\ CallsUnchanged

\* A string as the hooks see it: its length, whether it holds the character
\* 'A', whether it is in the encoded form.
Str(len, hasA) == [len |-> len, hasA |-> hasA, enc |-> FALSE]
\* customUtils.uid(len): a random string of len characters
uid(len) == {Str(len, hasA) : hasA \in BOOLEAN}

\* The hook pairs: "none" no hooks given (both default to s => s);
\* "inverse" an encoding and its decoding; "lossy" afterSerialization writes
\* 'B' for every 'A', beforeDeserialization returns its argument; "broken"
\* beforeDeserialization appends a character.
Hooks == {"none", "inverse", "lossy", "broken"}
afterSerialization(h, s) ==
    CASE h = "inverse" -> [s EXCEPT !.enc = TRUE]
      [] h = "lossy" -> [s EXCEPT !.hasA = FALSE]
      [] OTHER -> s
beforeDeserialization(h, s) ==
    CASE h = "inverse" -> [s EXCEPT !.enc = FALSE]
      [] h = "broken" -> [s EXCEPT !.len = @ + 1]
      [] OTHER -> s

\* a loop over the lengths that takes the length 30 too
OuterLoopInclusive(i) == i <= 30
\* the conditions of the two loops of the constructor
OuterLoop(i) == i < 30
InnerLoop(j) == j < 10

\* new Persistence(options), after the tests of the filename and of the
\* presence of the hooks: i = 1, j = 0
callPersistence ==
    /\ call = NoCall
    /\ \E h \in Hooks :
        call' = [fn |-> "Persistence", hooks |-> h, i |-> 1, j |-> 0, tested |-> 0,
                 threw |-> FALSE, randomString |-> Str(0, FALSE)]
    /\ CallsUnchanged

\* one turn of the inner loop: a random string of length i is put through
\* the hooks; the constructor throws when it does not come back
hooksCheck ==
    /\ call.fn = "Persistence"
    /\ ~call.threw
    /\ OuterLoop(call.i)
    /\ \E randomString \in uid(call.i) :
        LET back == beforeDeserialization(call.hooks,
                                          afterSerialization(call.hooks, randomString))
            last == ~InnerLoop(call.j + 1)
        IN call' = [call EXCEPT !.randomString = randomString,
                                !.tested = @ + 1,
                                !.threw = (back # randomString),
                                !.j = IF back # randomString THEN @
                                      ELSE IF last THEN 0 ELSE @ + 1,
                                !.i = IF back = randomString /\ last THEN @ + 1 ELSE @]
    /\ CallsUnchanged

\* The values of a document: a number, a Date (its getTime()), an object
\* with one field.  The JSON texts: a number, an object with one member.
Num(n) == <<"number", n>>
DateOf(ms) == <<"Date", ms>>
Obj(k, v) == <<"object", k, v>>
JNum(n) == <<"jnumber", n>>
JObj(k, j) == <<"jobject", k, j>>
Throws == <<"throws">>
\* new Date(x) of an x that is no number
InvalidDate == DateOf(-1)

FieldNames == {"a", "$$date", "$b", "a.b"}
Leaves == {Num(0), Num(5), DateOf(0), DateOf(5)}
RECURSIVE ValuesOfDepth(_)
ValuesOfDepth(d) ==
    IF d = 0 THEN Leaves
    ELSE ValuesOfDepth(d - 1)
            \cup {Obj(k, v) : k \in FieldNames, v \in ValuesOfDepth(d - 1)}
\* the documents: objects
Documents == {Obj(k, v) : k \in FieldNames, v \in ValuesOfDepth(MaxDepth - 1)}

\* checkKey(key, value) returns
checkKey(key, value) ==
    /\ ~(/\ key \in {"$$date", "$b"}
          /\ ~(key = "$$date" /\ value[1] = "number"))
    /\ key # "a.b"

\* checkObject(obj) returns
RECURSIVE checkObject(_)
checkObject(obj) ==
    obj[1] = "object" => (checkKey(obj[2], obj[3]) /\ checkObject(obj[3]))

\* JSON.stringify with the replacer of model.serialize, for the value found
\* under a key: the replacer checks the key, writes a Date as an object with
\* the member $$date, and JSON.stringify goes on into what it returned
RECURSIVE stringify(_, _)
stringify(key, value) ==
    CASE value[1] = "number" -> JNum(value[2])
      [] value[1] = "Date" -> JObj("$$date", JNum(value[2]))
      [] OTHER ->
            IF ~checkKey(value[2], value[3]) THEN Throws
            ELSE LET j == stringify(value[2], value[3])
                 IN IF j = Throws THEN Throws ELSE JObj(value[2], j)
serialize(obj) == stringify("", obj)

\* JSON.parse with the reviver of model.deserialize, members first: the
\* value under the key $$date becomes a Date, an object that has a truthy
\* $$date becomes its $$date
RECURSIVE revive(_, _)
revive(key, j) ==
    IF j[1] = "jnumber"
    THEN IF key = "$$date" THEN DateOf(j[2]) ELSE Num(j[2])
    ELSE LET member == revive(j[2], j[3])
         IN IF key = "$$date" THEN InvalidDate
            ELSE IF j[2] = "$$date" THEN member
            ELSE Obj(j[2], member)
deserialize(rawData) == revive("", rawData)

\* a document is checked, serialized, and the line deserialized
callSerialize ==
    /\ call = NoCall
    /\ \E doc \in Documents :
        LET line == serialize(doc)
        IN call' = [fn |-> "serialize", doc |-> doc, accepted |-> checkObject(doc),
                    line |-> line,
                    back |-> IF line = Throws THEN Throws ELSE deserialize(line)]
    /\ CallsUnchanged

\* doc[i]: the property of the document with that very name; no document
\* has a property with a dot in its name
Property(doc, i) ==
    CASE i = "_id" -> doc._id
      [] i = "f" -> doc.f
      [] OTHER -> Undefined

\* the test of getCandidates for one document and one TTL index
Expired(doc, i, expireAfterSeconds, now) ==
    /\ Property(doc, i) # Undefined
    /\ isDate(Property(doc, i))
    /\ now > getTime(Property(doc, i)) + expireAfterSeconds * 1000

\* what the documents of a datastore with a TTL index hold in f
TtlFVals == {Undefined, "x"} \cup Dates \cup ObjectsWithG
TtlFieldNames == {"f", "f.g"}
ExpireAfterSeconds == {0, 1}
Nows == {1000, 1001, 2001, 3001}
\* the datastores: at most one document for each _id
TtlStores == {ds \in SUBSET {Doc(id, f) : id \in Ids, f \in TtlFVals} :
                \A d, e \in ds : d._id = e._id => d = e}
\* the indexes after ensureIndex({fieldName, expireAfterSeconds}) of a
\* datastore that holds the documents ds
TtlIndexes(ds, fieldName) ==
    << [NewIndex("_id", TRUE, FALSE) EXCEPT !.tree = ds],
       [NewIndex(fieldName, FALSE, FALSE) EXCEPT !.tree = ds] >>

\* the documents in the order of the _id index
RECURSIVE InIdOrder(_, _)
InIdOrder(ds, k) ==
    IF k = 0 THEN <<>>
    ELSE InIdOrder(ds, k - 1) \o
         (IF \E d \in ds : d._id = StoredIdOrder[k]
          THEN <<CHOOSE d \in ds : d._id = StoredIdOrder[k]>> ELSE <<>>)

\* Datastore.getCandidates(query, callback) with one TTL index: step 1 for
\* the queries {} and {_id: q}; step 2 sorts out the expired documents and
\* removes them one after the other with _remove({_id: _id}, {}), whose
\* persistNewState appends the tombstone or fails (io)
getCandidates(ixs, q, fieldName, expireAfterSeconds, now, io) ==
    LET candidates == SelectSeq(InIdOrder(ixs[1].tree, Len(StoredIdOrder)),
                          LAMBDA d : q = Undefined \/ d._id = q)
        validDocs == SelectSeq(candidates, LAMBDA d : ~Expired(d, fieldName, expireAfterSeconds, now))
        expiredDocs == SelectSeq(candidates, LAMBDA d : Expired(d, fieldName, expireAfterSeconds, now))
    IN IF expiredDocs # <<>> /\ io # "ok"
       THEN [err |-> TRUE, docs |-> <<>>,
             indexes |-> removeFromIndexes(ixs, expiredDocs[1]), lines |-> <<>>]
       ELSE [err |-> FALSE, docs |-> validDocs,
             indexes |-> RemoveDocs(ixs, expiredDocs, Len(expiredDocs)),
             lines |-> [k \in 1..Len(expiredDocs) |-> DeletedLine(expiredDocs[k]._id)]]

callGetCandidates ==
    /\ call = NoCall
    /\ \E ds \in TtlStores, q \in {Undefined} \cup Ids, fieldName \in TtlFieldNames,
          e \in ExpireAfterSeconds, now \in Nows, io \in {"ok", "appendFile"} :
        call' = [fn |-> "getCandidates", indexes |-> TtlIndexes(ds, fieldName), query |-> q,
                 fieldName |-> fieldName, expireAfterSeconds |-> e, now |-> now,
                 out |-> getCandidates(TtlIndexes(ds, fieldName), q, fieldName, e, now, io)]
    /\ CallsUnchanged

\* The documents a cursor works on: an _id of CursorIds and f; the candidates
\* are any number of documents with different _ids, in any order.
CursorIds == {"a", "b", "c"}
CursorDocs == {Doc(id, f) : id \in CursorIds, f \in FVals}
Candidates ==
    {c \in UNION {[1..n -> CursorDocs] : n \in 0..Cardinality(CursorIds)} :
        \A i, j \in 1..Len(c) : c[i]._id = c[j]._id => i = j}

\* model.compareThings on undefined and strings: undefined first, then the
\* strings in their order
ValueOrder == <<Undefined, "a", "b", "c", "x", "y">>
Rank(v) == CHOOSE i \in 1..Len(ValueOrder) : ValueOrder[i] = v
compareThings(a, b) ==
    IF Rank(a) < Rank(b) THEN -1 ELSE IF Rank(a) > Rank(b) THEN 1 ELSE 0

\* The settings of a cursor.  _limit and _skip: 0 stands for undefined too
\* (both are tested for truthiness); _sort: no sort, or one key and its
\* direction; _projection: for _id and for f the value given, as a string
\* ("unset" when the key is not in the projection).
NoSort == [key |-> "none", direction |-> 0]
Sorts == {NoSort} \cup {[key |-> k, direction |-> d] : k \in {"_id", "f"}, d \in {1, -1}}
Projections == {[_id |-> i, f |-> a] : i \in {"unset", "0"}, a \in {"unset", "0", "1"}}
Cursors ==
    {[query |-> q, _limit |-> l, _skip |-> sk, _sort |-> so, _projection |-> pr] :
        q \in {Undefined} \cup FVals, l \in 0..2, sk \in 0..2, so \in Sorts,
        pr \in Projections}

\* model.match(doc, query) for the queries {} and {f: q}
match(doc, q) == q = Undefined \/ doc.f = q

\* a loop that stops one document after the limit
LimitReachedLate(limit, added) == limit # 0 /\ limit < added
\* self._limit && self._limit <= added
LimitReached(limit, added) == limit # 0 /\ limit <= added

\* the loop of _exec over the candidates, from candidate i on
RECURSIVE Accumulate(_, _, _, _, _)
Accumulate(cur, candidates, i, res, skipped) ==
    IF i > Len(candidates) THEN res
    ELSE IF ~match(candidates[i], cur.query)
         THEN Accumulate(cur, candidates, i + 1, res, skipped)
         ELSE IF cur._sort # NoSort
              THEN Accumulate(cur, candidates, i + 1, Append(res, candidates[i]), skipped)
              ELSE IF cur._skip # 0 /\ cur._skip > skipped
                   THEN Accumulate(cur, candidates, i + 1, res, skipped + 1)
                   ELSE IF LimitReached(cur._limit, Len(res) + 1)
                        THEN Append(res, candidates[i])
                        ELSE Accumulate(cur, candidates, i + 1,
                                        Append(res, candidates[i]), skipped)

\* the comparator res.sort is given
Compare(so, a, b) ==
    so.direction * compareThings(getDotValue(a, so.key), getDotValue(b, so.key))

\* Array.prototype.sort with that comparator: the elements that compare
\* equal keep their order
RECURSIVE SortBy(_, _, _)
SortBy(so, res, k) ==
    IF k = 0 THEN <<>>
    ELSE LET sorted == SortBy(so, res, k - 1)
             after == {i \in 1..Len(sorted) : Compare(so, sorted[i], res[k]) <= 0}
             n == IF after = {} THEN 0
                  ELSE CHOOSE i \in after : \A j \in after : j <= i
         IN SubSeq(sorted, 1, n) \o <<res[k]>> \o SubSeq(sorted, n + 1, Len(sorted))

\* Array.prototype.slice(begin, end)
Slice(a, begin, end) ==
    SubSeq(a, begin + 1, IF end < Len(a) THEN end ELSE Len(a))

\* a project that leaves this._projection as it is
OmitIdKept(pr) == pr
\* this._projection = _.omit(this._projection, '_id')
OmitId(pr) == [pr EXCEPT !._id = "unset"]

\* Cursor.project(candidates): the documents projected and the cursor it
\* leaves
project(cur, candidates) ==
    IF cur._projection._id = "unset" /\ cur._projection.f = "unset"
    THEN [res |-> candidates, cursor |-> cur]
    ELSE LET keepId == cur._projection._id # "0"
             action == cur._projection.f
             toPush(c) ==
                 LET picked == IF action = "1" THEN Doc(Undefined, c.f)
                               ELSE IF action = "0" THEN Doc(c._id, Undefined) ELSE c
                 IN Doc(IF keepId THEN c._id ELSE Undefined, picked.f)
         IN [res |-> [i \in 1..Len(candidates) |-> toPush(candidates[i])],
             cursor |-> [cur EXCEPT !._projection = OmitId(@)]]

\* Cursor._exec with the candidates getCandidates gives
_exec(cur, candidates) ==
    LET res == Accumulate(cur, candidates, 1, <<>>, 0)
        sliced == IF cur._sort = NoSort THEN res
                  ELSE LET sorted == SortBy(cur._sort, res, Len(res))
                           limit == IF cur._limit # 0 THEN cur._limit ELSE Len(sorted)
                       IN Slice(sorted, cur._skip, cur._skip + limit)
    IN project(cur, sliced)

\* a cursor is made and executed
callExec ==
    /\ call = NoCall
    /\ \E cur \in Cursors, candidates \in Candidates :
        call' = [fn |-> "exec", cursor |-> cur, candidates |-> candidates, execs |-> 1,
                 first |-> _exec(cur, candidates),
                 second |-> _exec(cur, candidates)]
    /\ CallsUnchanged

\* the same cursor is executed again, nothing was written in between
callExecAgain ==
    /\ call.fn = "exec"
    /\ call.execs = 1
    /\ call' = [call EXCEPT !.execs = 2,
                            !.second = _exec(call.first.cursor, call.candidates)]
    /\ CallsUnchanged

\* The _ids of the documents a query is run on: the number 1, the string
\* '1' and the string 'a'.  text: what String(_id) gives, the name of the
\* property in `_res[doc._id] = doc`.
QueryIds == {[type |-> "number", text |-> "1"], [type |-> "string", text |-> "1"],
             [type |-> "string", text |-> "a"]}
QueryDocs == {Doc(id, f) : id \in QueryIds, f \in {Undefined} \cup FVals}
\* the documents of a datastore in the order they were inserted
QueryStores ==
    {st \in UNION {[1..n -> QueryDocs] : n \in 0..Cardinality(QueryIds)} :
        \A i, j \in 1..Len(st) : st[i]._id = st[j]._id => i = j}
\* the index of f: none, one that is not sparse, a sparse one
QueryIndexes == {"none", "full", "sparse"}
\* the queries: {}, {f: v}, {f: {$in: vs}}, {f: {$lt: v}}, {f: {$gte: v}}
Queries ==
    {[op |-> "all", v |-> Undefined, vs |-> <<>>]}
    \cup {[op |-> o, v |-> v, vs |-> <<>>] : o \in {"eq", "$lt", "$gte"}, v \in FVals}
    \cup {[op |-> "$in", v |-> Undefined, vs |-> vs] :
            vs \in {<<>>, <<"x">>, <<"y">>, <<"x", "y">>, <<"y", "x">>}}

\* model.match(doc, query) for these queries: areThingsEqual for a value,
\* comparisonFunctions.$in, $lt and $gte (areComparable: no document without
\* f is less or greater than a string)
matchQueryPart(doc, query) ==
    CASE query.op = "all" -> TRUE
      [] query.op = "eq" -> doc.f = query.v
      [] query.op = "$in" -> \E i \in 1..Len(query.vs) : doc.f = query.vs[i]
      [] query.op = "$lt" -> doc.f # Undefined /\ compareThings(doc.f, query.v) < 0
      [] OTHER -> doc.f # Undefined /\ compareThings(doc.f, query.v) >= 0

\* the documents an index of f holds, in the order of their insertion: a
\* sparse index leaves out the documents without f
Indexed(store, index) ==
    SelectSeq(store, LAMBDA d : index # "sparse" \/ d.f # Undefined)

\* tree.search(value)
Search(tree, value) == SelectSeq(tree, LAMBDA d : d.f = value)

RECURSIVE SearchEach(_, _, _)
SearchEach(tree, vs, k) ==
    IF k = 0 THEN <<>> ELSE SearchEach(tree, vs, k - 1) \o Search(tree, vs[k])

\* a property name that tells the _ids apart
PropertyNameExact(id) == id
\* the name of the property _res[doc._id]: the _id as a string
PropertyName(id) == id.text

\* Index.getMatching(value) with an array: every document found is written
\* to _res under its _id, a later one over an earlier one of the same name
getMatching(tree, vs) ==
    LET found == SearchEach(tree, vs, Len(vs))
    IN {found[i] : i \in {i \in 1..Len(found) :
            \A j \in (i + 1)..Len(found) :
                PropertyName(found[j]._id) # PropertyName(found[i]._id)}}

\* tree.betweenBounds(query) with compareThings as compareKeys
getBetweenBounds(tree, query) ==
    {d \in SeqToSet(tree) :
        IF query.op = "$lt" THEN compareThings(d.f, query.v) < 0
        ELSE compareThings(d.f, query.v) >= 0}

\* step 1 of Datastore.getCandidates: the first index the query can use for
\* a basic match, for $in, for a comparison; else all the documents
candidatesOf(store, index, query) ==
    LET tree == Indexed(store, index)
    IN CASE index = "none" \/ query.op = "all" -> SeqToSet(store)
         [] query.op = "eq" -> SeqToSet(Search(tree, query.v))
         [] query.op = "$in" -> getMatching(tree, query.vs)
         [] OTHER -> getBetweenBounds(tree, query)

callCandidates ==
    /\ call = NoCall
    /\ \E store \in QueryStores, index \in QueryIndexes, query \in Queries :
        call' = [fn |-> "candidates", store |-> store, index |-> index, query |-> query,
                 out |-> candidatesOf(store, index, query)]
    /\ CallsUnchanged

InitCalls ==
    /\ InitData
NextCalls ==
    \/ callTreatRawData
    \/ callPersistence
    \/ hooksCheck
    \/ callSerialize
    \/ callGetCandidates
    \/ callExec
    \/ callExecAgain
    \/ callCandidates
SpecCalls == InitCalls /\ [][NextCalls]_vars

(***************************************************************************)
(* The indexes with their TTL settings, over a datafile that an earlier    *)
(* session wrote: ensureIndex, removeIndex, loadDatabase and find.         *)
(***************************************************************************)
\* the datafiles: up to two documents, each a line, with a string or a date
\* in f
StoredDocs == {Doc(id, f) : id \in {"a", "b"}, f \in {"x", "Date(1000)"}}
Datafiles ==
    {DocLinesOf(ds) : ds \in {sq \in UNION {[1..n -> StoredDocs] : n \in 0..2} :
                                \A i, j \in 1..Len(sq) : sq[i]._id = sq[j]._id => i = j}}

\* the indexes of a new datastore after a successful loadDatabase of the file
LoadedIndexes(file) ==
    resetIndexes(ConstructedIndexes, SortDocs(treatData(file).data, Len(DocOrder))).v

\* Date.now() at the time of a find
FindNows == {1001, 2001}

\* Datastore.find(query).exec: getCandidates with the TTL settings of the
\* datastore and the removal of the expired documents.  No _id is a date:
\* of the settings only the one of f can make a document expire.
doFind ==
    /\ nops < MaxDataOps
    /\ HasIdIndex
    /\ nops' = nops + 1
    /\ \E q \in {Undefined, "a"}, now \in FindNows, io \in {"ok", "appendFile"} :
        LET ts == {t \in ttlIndexes : t.fieldName = "f"}
            out == IF ts = {}
                   THEN getCandidates(dbIndexes, q, "none", 0, now, io)
                   ELSE LET t == CHOOSE t \in ts : TRUE
                        IN getCandidates(dbIndexes, q, "f", t.expireAfterSeconds, now, io)
        IN /\ dbIndexes' = out.indexes
           /\ dbLines' = dbLines \o out.lines
           /\ lastOp' = [LastOp("find", out.err, IF out.err THEN "append" ELSE "none",
                                [q |-> q, now |-> now], out.docs)
                         EXCEPT !.arg = @ @@ [ttl |-> ttlIndexes]]
    /\ DataUnchanged

doEnsureTtlIndex ==
    \E fieldName \in {Undefined, "f"} : EnsureIndexOn(fieldName, {<<>>, <<1>>})

\* the datastore was constructed over the datafile, and loaded or not yet
InitTtl ==
    \E file \in Datafiles, loaded \in BOOLEAN :
        IF loaded
        THEN InitLayer(LoadedIndexes(file), CachedLines(LoadedIndexes(file)))
        ELSE InitLayer(ConstructedIndexes, file)

NextTtl ==
    \/ doEnsureTtlIndex
    \/ doRemoveIndex
    \/ doLoad
    \/ doFind

SpecTtl == InitTtl /\ [][NextTtl]_vars

(***************************************************************************)
(* The executor.                                                           *)
(***************************************************************************)
Started == {startSeq[i] : i \in 1..Len(startSeq)}
Admitted == {admitSeq[i] : i \in 1..Len(admitSeq)}
Buffered == {buffer[i].n : i \in 1..Len(buffer)}
AdmitPos(n) == CHOOSE i \in 1..Len(admitSeq) : admitSeq[i] = n
IsPrefix(s, t) == Len(s) <= Len(t) /\ SubSeq(t, 1, Len(s)) = s

\* C1: at every moment at most one executor task is running: a task is not
\* started until the task started before it has signalled its completion.
C1_AtMostOneTaskRunning ==
    /\ Cardinality(running) <= 1
    /\ workers = Cardinality(running)
    /\ \A i \in 1..(Len(startSeq) - 1) : startSeq[i] \in doneSet

\* a task is suspended in file I/O, an earlier one has completed, another waits
C1_Witness ==
    /\ \E r \in running : r.pc \in {"append", "csw"}
    /\ doneSet # {}
    /\ qtasks # <<>>

\* C2: tasks start in the order queue.push received them; the tasks held
\* in the buffer are handed to the queue in the order they were pushed, ahead
\* of every task pushed after processBuffer.
C2_FifoOrder ==
    /\ IsPrefix(startSeq, admitSeq)
    /\ \A a, b \in Admitted :
          (a < b /\ ~subs[a].force /\ ~subs[b].force) => AdmitPos(a) < AdmitPos(b)
    /\ \A i, j \in 1..Len(buffer) : i < j => buffer[i].n < buffer[j].n
    /\ \A a \in Buffered : \A b \in Admitted : ~subs[b].force => b < a

\* two tasks pushed before the load were handed over by processBuffer and
\* have started, in the order they were pushed, after the load
C2_Witness ==
    /\ Len(startSeq) = Len(admitSeq)
    /\ \E l, a, b \in Admitted :
          /\ subs[l].kind = "load"
          /\ a < b
          /\ b < l
          /\ {a, b} \subseteq bufferedSet
          /\ AdmitPos(l) < AdmitPos(a)
          /\ AdmitPos(a) < AdmitPos(b)

\* C3: with a persistent datastore no task pushed without force starts
\* before a loadDatabase has completed successfully; loadDatabase itself is
\* pushed with force and is never buffered.
C3_NothingBeforeLoad ==
    /\ ~inMemoryOnly => \A r \in running : ~r.t.force => loadedOk
    /\ ~inMemoryOnly => (ready <=> loadedOk)
    /\ \A n \in 1..nsub : subs[n].kind = "load" => (subs[n].force /\ n \notin bufferedSet)

\* a task that waited in the buffer runs, after the load that was admitted
\* while the executor was not ready
C3_Witness ==
    /\ ~inMemoryOnly
    /\ \E r \in running : r.t.n \in bufferedSet /\ r.t.kind \in Mutating
    /\ \E n \in doneSet : subs[n].kind = "load"

\* C4: for operations A then B pushed in that order, A has had all its
\* effects before B begins executing -- except when B is a loadDatabase and A
\* was pushed while the executor was not ready: the forced load goes past the
\* buffer that holds A.
EffectsDone(a) == a \in doneSet \/ \E r \in running : r.t.n = a /\ r.pc = "signalled"

C4_OrderExceptForcedLoad ==
    \A r \in running : \A a \in 1..(r.t.n - 1) :
        ~EffectsDone(a) => (r.t.kind = "load" /\ a \in bufferedSet)

\* C4 as stated: without the exception
C4_SubmissionOrder ==
    \A r \in running : \A a \in 1..(r.t.n - 1) : EffectsDone(a)

\* B was pushed while A, a mutation that wrote the datafile, was still in the
\* queue; B is running and A is complete
C4_Witness ==
    \E r \in running : \E a \in doneSet :
        /\ a < r.t.n
        /\ r.t.n \notin bufferedSet
        /\ subs[a].kind \in Mutating
        /\ r.t.kind # "load"
        /\ datafile.exists /\ datafile.data # <<>>

\* C5: with a persistent datastore, when the callback of an insert, update
\* or remove is invoked without error, the records of the operation are in
\* the datafile as the operating system holds it (fs.appendFile has
\* completed); they are not yet flushed to the storage device.
SuccessfulWrites ==
    {r \in running : r.pc = "signalled" /\ ~r.err /\ r.t.kind \in Mutating /\ r.recs # <<>>}

RecordsIn(file, r) ==
    /\ file.exists
    /\ Len(r.recs) <= r.pos
    /\ r.pos <= Len(file.data)
    /\ SubSeq(file.data, r.pos - Len(r.recs) + 1, r.pos) = r.recs

C5_CallbackAfterAppend ==
    ~inMemoryOnly => \A r \in SuccessfulWrites : RecordsIn(datafile, r)

\* C5 as stated: the records are on the storage device as well
C5_CallbackAfterDurable ==
    ~inMemoryOnly => \A r \in SuccessfulWrites : RecordsIn(datafile, r) /\ RecordsIn(durable, r)

\* the callback of a successful remove has been invoked
C5_Witness ==
    /\ ~inMemoryOnly
    /\ \E r \in SuccessfulWrites : r.t.kind = "remove"

\* C6: the indexes and the datafile are changed only by a step of a running
\* executor task (a step of a task changes the task's position).
C6_MutatedOnlyInTask ==
    [][(indexes' # indexes \/ docs' # docs \/ datafile' # datafile) => running' # running]_vars

\* C7: from the snapshot of persistCachedDatabase until its crash-safe write
\* has finished, nothing is written to the datafile but the rename of the
\* compacted file.
Compacting == {r \in running : r.pc = "csw"}

C7_NoAppendDuringCompaction ==
    [][(Compacting # {} /\ datafile' # datafile) =>
          (\E r \in Compacting : r.step = 5 /\ datafile' = tempfile)]_vars

\* C10: after successful inserts, updates and removes on a persistent
\* datastore, a successful load yields the logical result of the sequence.
C10_LoadYieldsLogicalResult ==
    ~inMemoryOnly =>
        \A r \in running :
            (r.t.kind = "load" /\ r.pc = "signalled" /\ ~r.err) => docs = expected

(***************************************************************************)
(* The storage module.                                                     *)
(***************************************************************************)
\* C8: when the process is killed during crashSafeWriteFile(filename, data),
\* after ensureDatafileIntegrity(filename) filename holds what it held before
\* the write or the new data.
C8_OldOrNewAfterKill ==
    phase = "recovered" => (datafile.data = preWrite.data \/ datafile.data = cswData)

\* the order of the file operations of crashSafeWriteFile
cswOrder ==
    << Op("flushToStorage", "dirname"), Op("exists ? flushToStorage", "filename"),
       Op("writeFile", "filename~"), Op("flushToStorage", "filename~"),
       Op("rename", "filename~"), Op("flushToStorage", "dirname") >>

\* C9: crashSafeWriteFile attempts its file operations in the order of
\* cswOrder, filename~ is flushed before it is renamed, and after a failure
\* no later operation is attempted and the call reports the error.
C9_StepOrder ==
    /\ IsPrefix(cswTrace, cswOrder)
    /\ Op("rename", "filename~") \in {cswTrace[i] : i \in 1..Len(cswTrace)} =>
           cswTrace[4] = Op("flushToStorage", "filename~")
    /\ cswResult = "ok" => cswTrace = cswOrder
    /\ (phase = "returned" /\ cswTrace # cswOrder) => cswResult = "err"

(***************************************************************************)
(* The index layer.                                                        *)
(***************************************************************************)
\* the live documents: what the _id index holds
Live == IF HasIdIndex THEN dbIndexes[IndexPos(dbIndexes, "_id")].tree ELSE {}

\* the documents a state of the indexes holds under _id
LiveIn(ixs) == ixs[IndexPos(ixs, "_id")].tree

\* the fold of the lines by _id: a document record replaces the document of
\* its _id, a tombstone removes it
RECURSIVE FoldDocs(_, _)
FoldDocs(ls, k) ==
    IF k = 0 THEN {}
    ELSE LET prev == FoldDocs(ls, k - 1)
         IN IF ls[k].kind = "doc"
            THEN {d \in prev : d._id # ls[k].doc._id} \cup {ls[k].doc}
            ELSE IF ls[k].kind = "$$deleted"
                 THEN {d \in prev : d._id # ls[k].doc._id}
                 ELSE prev

\* the index definitions the lines leave: the last $$indexCreated of a field
\* that no later $$indexRemoved follows
FoldIndexes(ls) ==
    {ls[k].options : k \in {j \in 1..Len(ls) :
        /\ ls[j].kind = "$$indexCreated"
        /\ \A i \in (j + 1)..Len(ls) :
            ~(/\ ls[i].kind \in {"$$indexCreated", "$$indexRemoved"}
              /\ ls[i].options.fieldName = ls[j].options.fieldName)}}

Holds(ix, d) == d \in ix.tree \/ (ix.sparse /\ getDotValue(d, ix.fieldName) = Undefined)

LoadedOk == lastOp.op = "load" /\ ~lastOp.err

\* C11: after a successful load the live documents are the fold of the lines
\* the datafile held (last record of an _id wins, a tombstone removes), the
\* indexes the lines define exist with their flags, and every index holds
\* every live document.
C11_LoadIsFold ==
    LoadedOk =>
        /\ Live = FoldDocs(lastOp.preLines, Len(lastOp.preLines))
        /\ \A o \in FoldIndexes(lastOp.preLines) :
            \E i \in 1..Len(dbIndexes) :
                /\ dbIndexes[i].fieldName = o.fieldName
                /\ dbIndexes[i].unique = o.unique
                /\ dbIndexes[i].sparse = o.sparse
        /\ \A i \in 1..Len(dbIndexes) : \A d \in Live : Holds(dbIndexes[i], d)

\* C12: once ensureIndex(f) has succeeded (its record is appended), a load of
\* the datafile recreates the index on f; once removeIndex(f) has succeeded, a
\* load of the datafile does not.
C12_IndexDefinitionsPersist ==
    (~inMemoryOnly /\ nix > 0 /\ pendingIx = <<>> /\ datafile.exists) =>
        \A f \in Fields : f \in indexes <=> f \in treatRawData(datafile.data).indexes

FailedWith(op, cause) == lastOp.op = op /\ lastOp.err /\ lastOp.cause = cause

IdsOf(ds) == {d._id : d \in ds}

\* C13: an insert (of one document or of an array) that an index refuses
\* leaves every index with exactly the documents it held before the insert.
C13_InsertAllOrNothing ==
    FailedWith("insert", "unique") => dbIndexes = lastOp.pre

\* the second document of an array was refused by the second index, after the
\* first document was in every index and the second in the _id index
C13_Witness ==
    /\ FailedWith("insert", "unique")
    /\ Len(lastOp.arg.docs) = 2
    /\ Len(lastOp.pre) = 2
    /\ lastOp.arg.docs[1]._id # lastOp.arg.docs[2]._id
    /\ IdsOf(LiveIn(lastOp.pre)) \cap {lastOp.arg.docs[1]._id, lastOp.arg.docs[2]._id} = {}
    /\ addToIndexes(lastOp.pre, lastOp.arg.docs[1]).err = FALSE

KeyIn(ix, d) == getDotValue(d, ix.fieldName)

\* C15: every unique index holds at most one document per key; no two live
\* documents have the same _id; under a unique index that is not sparse at
\* most one live document lacks the field.
C15_UniqueKeys ==
    /\ \A i \in 1..Len(dbIndexes) :
        dbIndexes[i].unique =>
            /\ \A d1, d2 \in dbIndexes[i].tree :
                KeyIn(dbIndexes[i], d1) = KeyIn(dbIndexes[i], d2) => d1 = d2
            /\ ~dbIndexes[i].sparse =>
                Cardinality({d \in Live : KeyIn(dbIndexes[i], d) = Undefined}) <= 1
    /\ \A d1, d2 \in Live : d1._id = d2._id => d1 = d2

\* a live document lacks f, f has a unique index that is not sparse, and the
\* insert of another document without f was refused
C15_Witness ==
    /\ FailedWith("insert", "unique")
    /\ Len(lastOp.arg.docs) = 1
    /\ lastOp.arg.docs[1].f = Undefined
    /\ lastOp.arg.docs[1]._id \notin IdsOf(Live)
    /\ \E d \in Live : d.f = Undefined
    /\ \E i \in 1..Len(dbIndexes) :
        dbIndexes[i].fieldName = "f" /\ dbIndexes[i].unique /\ ~dbIndexes[i].sparse

\* every index holds the live documents and nothing else, except that a
\* sparse index leaves out the documents without its field
IndexesAgree ==
    \A i \in 1..Len(dbIndexes) :
        /\ dbIndexes[i].tree \subseteq Live
        /\ \A d \in Live : Holds(dbIndexes[i], d)
        /\ \A d \in dbIndexes[i].tree :
            ~(dbIndexes[i].sparse /\ KeyIn(dbIndexes[i], d) = Undefined)

\* C16: all the indexes agree with the _id index, and an operation that
\* failed has left every index as it was.
C16_IndexesAgreeAndFailuresChangeNothing ==
    /\ IndexesAgree
    /\ lastOp.err => dbIndexes = lastOp.pre

Refused ==
    /\ lastOp.op \in {"insert", "update"}
    /\ lastOp.err
    /\ lastOp.cause \in {"key", "unique"}

\* an insert or update refused for a key or by a unique index appends nothing
\* and leaves the indexes as they were
RefusedAppendsNothing == Refused => (dbLines = lastOp.preLines /\ dbIndexes = lastOp.pre)

\* C17: an insert or update refused for a key or by a unique index reports
\* the error and appends nothing, and a load of the datafile then yields the
\* documents that were live before the operation.
C17_RefusedThenLoadYieldsPreState ==
    Refused =>
        /\ dbLines = lastOp.preLines
        /\ treatData(dbLines).data = LiveIn(lastOp.pre)

\* C18: an insert, update or remove whose append to the datafile failed
\* reports the error and leaves the content of every index as it was.
C18_FailedAppendKeepsMemory ==
    (lastOp.op \in {"insert", "update", "remove"} /\ lastOp.cause = "append") =>
        (lastOp.err /\ dbIndexes = lastOp.pre)

\* what the claim calls an update whose result would have another _id: a
\* replacement with another _id, $set of _id to another value, $unset of _id,
\* $inc of _id
WouldChangeId(m, uq) ==
    \/ uq.kind = "replace" /\ uq.id # Undefined /\ uq.id # m._id
    \/ uq.kind = "$set" /\ uq.field = "_id" /\ uq.id # m._id
    \/ uq.kind = "$unset" /\ uq.field = "_id"
    \/ uq.kind = "$inc" /\ uq.field = "_id"

MatchedOf(k) == {lastOp.matched[i] : i \in 1..k}

C20_IdIndexPresentAndUnique ==
    /\ HasIdIndex
    /\ dbIndexes[IndexPos(dbIndexes, "_id")].unique

(***************************************************************************)
(* Errors and the queue.                                                   *)
(***************************************************************************)
Failed(n) == \E r \in running : r.t.n = n /\ r.pc = "signalled" /\ r.err

Queued(n) == \E i \in 1..Len(qtasks) : qtasks[i].n = n

\* C21: a task that reported an error through its callback is completed for
\* the queue, and every task that was queued behind it is started afterwards.
C21_ErrorDoesNotPoisonQueue ==
    \A n \in 1..MaxOps, m \in 1..MaxOps :
        /\ Failed(n) ~> (n \in doneSet)
        /\ (Failed(n) /\ Queued(m)) ~> (m \in Started)

\* a task has failed while another one waits in the queue
C21_Witness == \E n \in 1..MaxOps, m \in 1..MaxOps : Failed(n) /\ Queued(m)

InBuffer(n) == \E i \in 1..Len(buffer) : buffer[i].n = n

\* C22 as stated: once a task has failed, every task that was pushed, to the
\* queue or to the buffer, is eventually executed and called back.
C22_EveryPushedTaskRuns ==
    \A n \in 1..MaxOps, m \in 1..MaxOps :
        (Failed(n) /\ m <= nsub) ~> (m \in doneSet)

\* C22: no task is dropped.  A task in the queue is eventually executed and
\* called back, whatever failed before it; a task in the buffer stays there
\* until it is handed to the queue, and once a load has succeeded it is
\* executed and called back.
C22_NeverDropsATask ==
    /\ \A m \in 1..MaxOps : (Queued(m) \/ m \in Started) ~> (m \in doneSet)
    /\ \A m \in 1..MaxOps : (m \in bufferedSet /\ loadedOk) ~> (m \in doneSet)
    /\ [][\A m \in 1..MaxOps :
            InBuffer(m) => (InBuffer(m)' \/ (Queued(m)' /\ ready'))]_vars

\* a loadDatabase has failed while a task waits in the buffer and a second
\* loadDatabase waits in the queue
C22_Witness ==
    /\ \E n \in 1..MaxOps : Failed(n) /\ \E r \in running : r.t.n = n /\ r.t.kind = "load"
    /\ buffer # <<>>
    /\ \E i \in 1..Len(qtasks) : qtasks[i].kind = "load"

(***************************************************************************)
(* Compaction.                                                             *)
(***************************************************************************)
Compacted == lastOp.op = "compact" /\ ~lastOp.err

\* C23: a compaction leaves the indexes (documents and definitions) as they
\* are and writes the datafile that the indexes determine, so a compaction
\* that follows a compaction, or finds the datafile as a compaction of the
\* same indexes writes it, leaves the content of the datafile unchanged.
C23_CompactionIdempotent ==
    /\ lastOp.op = "compact" => dbIndexes = lastOp.pre
    /\ Compacted =>
        /\ dbLines = CachedLines(dbIndexes)
        /\ lastOp.preLines = CachedLines(lastOp.pre) => dbLines = lastOp.preLines
        /\ lastOp.prev = "compact" => dbLines = lastOp.preLines

\* a second compaction right after a compaction, with a live document
C23_Witness ==
    /\ Compacted
    /\ lastOp.prev = "compact"
    /\ lastOp.preLines = CachedLines(lastOp.pre)
    /\ Live # {}

(***************************************************************************)
(* compaction.done.                                                        *)
(***************************************************************************)
Rewrote(r) == r.pc = "signalled" /\ r.step = LastCswStep /\ ~r.err

\* C24: a task has emitted compaction.done once when its rewrite of the
\* datafile (of loadDatabase or of compactDatafile) has succeeded and its
\* callback was called, and not at all otherwise: not while the rewrite is
\* under way, not when it failed, not when the task made no rewrite; the
\* event is emitted in the step that ends the rewrite, after the rename.
C24_CompactionDoneOncePerRewrite ==
    /\ [](\A r \in running :
            /\ r.emitted = IF Rewrote(r) THEN 1 ELSE 0
            /\ Rewrote(r) => r.t.kind \in {"load", "compact"})
    /\ [][\A r \in running : \A q \in running' :
            (q.t = r.t /\ q.emitted # r.emitted) =>
                /\ r.pc = "csw" /\ r.step > 5
                /\ q.pc = "signalled"
                /\ q.emitted = r.emitted + 1]_vars

\* an explicit compaction has rewritten the datafile and emitted the event
C24_Witness ==
    \E r \in running : r.t.kind = "compact" /\ Rewrote(r) /\ r.emitted = 1

(***************************************************************************)
(* The corruption threshold.                                               *)
(***************************************************************************)
\* the lines of a file: the final line is left out when it is empty
FileLines(rawData) ==
    LET data == Split(rawData)
    IN IF data[Len(data)] = <<>> THEN SubSeq(data, 1, Len(data) - 1) ELSE data
FailingLines(rawData) ==
    Cardinality({i \in 1..Len(FileLines(rawData)) : LineThrows(FileLines(rawData)[i])})
EndsWithNewline(rawData) == rawData # <<>> /\ rawData[Len(rawData)] = "\n"

\* C25: the load fails with the corruption error exactly when the number of
\* lines that fail to parse, the empty final line not counted, divided by the
\* number of lines is greater than corruptAlertThreshold, whether the file
\* ends with a newline or not.
C25_CorruptionThreshold ==
    call.fn = "treatRawData" =>
        (call.threw <=> FailingLines(call.rawData) * PerTen
                            > call.corruptAlertThreshold * Len(Split(call.rawData)))

\* the same for the files that end with a newline
C25_ThresholdWithFinalNewline ==
    (call.fn = "treatRawData" /\ EndsWithNewline(call.rawData)) =>
        (call.threw <=> FailingLines(call.rawData) * PerTen
                            > call.corruptAlertThreshold * Len(Split(call.rawData)))

(***************************************************************************)
(* The check of the hooks at construction.                                 *)
(***************************************************************************)
Constructed == call.fn = "Persistence" /\ ~call.threw /\ ~OuterLoop(call.i)
RoundTrips(h, s) == beforeDeserialization(h, afterSerialization(h, s)) = s

\* C27 as stated: a constructed Persistence has put 300 random strings
\* through the hooks, and the construction fails when a string does not
\* come back.
C27_HooksCheckedOn300Strings ==
    /\ Constructed => call.tested = 300
    /\ (call.fn = "Persistence" /\ call.tested > 0) =>
            (call.threw <=> ~RoundTrips(call.hooks, call.randomString))

\* C27: a constructed Persistence has put 290 random strings through the
\* hooks, ten of every length from 1 to 29, and all came back; the
\* construction fails at the first string that does not come back.
C27_HooksCheckedOn290Strings ==
    call.fn = "Persistence" =>
        /\ Constructed => call.tested = 290
        /\ call.tested > 0 =>
                /\ call.threw <=> ~RoundTrips(call.hooks, call.randomString)
                /\ call.randomString.len \in 1..29
        /\ ~call.threw => call.tested = 10 * (call.i - 1) + call.j
        /\ call.tested <= 290

\* constructed with a pair of hooks that are inverses of each other
C27_Witness == Constructed /\ call.hooks = "inverse" /\ call.tested = 290

(***************************************************************************)
(* Serialization.                                                          *)
(***************************************************************************)
RECURSIVE HasDateKey(_)
HasDateKey(v) == v[1] = "object" /\ (v[2] = "$$date" \/ HasDateKey(v[3]))

\* C28: a document that the key check accepts comes back from
\* deserialize(serialize(D)) as it was, also when it holds dates or an
\* object with a numeric field named $$date.
C28_SerializeRoundTrip ==
    (call.fn = "serialize" /\ call.accepted) => call.back = call.doc

\* the same for the accepted documents that have no field named $$date
C28_RoundTripWithoutDateKey ==
    (call.fn = "serialize" /\ call.accepted /\ ~HasDateKey(call.doc)) =>
        call.back = call.doc

\* the key check and the serialization refuse the same documents
C28_SerializeThrowsWhenRejected ==
    call.fn = "serialize" => (call.accepted <=> call.line # Throws)

(***************************************************************************)
(* ensureDatafileIntegrity.                                                *)
(***************************************************************************)
\* what the claim says of a call of ensureDatafileIntegrity(filename) that
\* finds the files datafile and tempfile and leaves datafile' and tempfile'
IntegrityEnsured ==
    /\ datafile.exists => (datafile' = datafile /\ tempfile' = tempfile)
    /\ (~datafile.exists /\ tempfile.exists) =>
            (datafile' = tempfile /\ ~tempfile'.exists)
    /\ (~datafile.exists /\ ~tempfile.exists) =>
            (datafile' = File(<<>>) /\ tempfile' = tempfile)

\* C29: ensureDatafileIntegrity(filename) changes nothing when filename
\* exists; else renames filename~ to filename when filename~ exists; else
\* creates filename empty.  The content of filename is never taken from
\* filename~ when filename existed.
C29_EnsureDatafileIntegrity ==
    [][(phase = "killed" /\ phase' = "recovered") => IntegrityEnsured]_vars

\* the same for lib/storage.js, where the call succeeds and filename exists
\* after it
C29_EnsureDatafileIntegrityLib ==
    [][(phase = "killed" /\ phase' = "recovered" /\ impl = "lib") =>
            (IntegrityEnsured /\ datafile'.exists)]_vars

(***************************************************************************)
(* The eviction of expired documents.                                      *)
(***************************************************************************)
\* the candidates of the query before the eviction
CandidatesOf(c) == {d \in c.indexes[1].tree : c.query = Undefined \/ d._id = c.query}
\* the document holds a date in the field of the TTL index and the date is
\* more than expireAfterSeconds in the past
HoldsExpiredDate(c, d) ==
    /\ isDate(getDotValue(d, c.fieldName))
    /\ c.now > getTime(getDotValue(d, c.fieldName)) + c.expireAfterSeconds * 1000
Evicted(c, d) ==
    /\ \A i \in 1..Len(c.out.indexes) : d \notin c.out.indexes[i].tree
    /\ DeletedLine(d._id) \in SeqToSet(c.out.lines)
    /\ d \notin SeqToSet(c.out.docs)
Kept(c, d) ==
    /\ \A i \in 1..Len(c.out.indexes) : d \in c.out.indexes[i].tree
    /\ DeletedLine(d._id) \notin SeqToSet(c.out.lines)
    /\ d \in SeqToSet(c.out.docs)

\* C26: when getCandidates returns the candidates, every candidate that
\* holds a date in the field of the TTL index with now > date +
\* expireAfterSeconds * 1000 is out of every index, has its tombstone
\* appended and is not returned; a candidate whose field is absent or not a
\* date is returned and kept.
C26_TtlEviction ==
    (call.fn = "getCandidates" /\ ~call.out.err) =>
        \A d \in CandidatesOf(call) :
            /\ HoldsExpiredDate(call, d) => Evicted(call, d)
            /\ ~isDate(getDotValue(d, call.fieldName)) => Kept(call, d)

\* the same for a TTL index on a field of the document itself
C26_TtlEvictionTopLevelField ==
    (call.fn = "getCandidates" /\ ~call.out.err /\ call.fieldName = "f") =>
        \A d \in CandidatesOf(call) :
            /\ HoldsExpiredDate(call, d) => Evicted(call, d)
            /\ ~HoldsExpiredDate(call, d) => Kept(call, d)

(***************************************************************************)
(* The counts of update and remove.                                        *)
(***************************************************************************)
Counted == lastOp.op \in {"update", "remove"} /\ ~lastOp.err
\* the documents that matched the query before the operation
Matching == {d \in LiveIn(lastOp.pre) : lastOp.arg.q = Undefined \/ d._id = lastOp.arg.q}
\* the lines the operation appended
Appended == SubSeq(dbLines, Len(lastOp.preLines) + 1, Len(dbLines))

Upserting == lastOp.op \in {"update", "upsert"} /\ "upsert" \in DOMAIN lastOp.arg
\* the update reported (1, newDoc, true)
Upserted == lastOp.op = "upsert" /\ ~lastOp.err

Executed == call.fn = "exec"
MatchingOf(c) == SelectSeq(c.candidates, LAMBDA d : match(d, c.cursor.query))
IsSortedBy(so, sq) == \A i, j \in 1..Len(sq) : i < j => Compare(so, sq[i], sq[j]) <= 0
\* the sequences of the matching documents the result is taken from: the
\* candidate order without a sort, every order the sort allows with one
OrdersOf(c) ==
    LET m == MatchingOf(c)
    IN IF c.cursor._sort = NoSort THEN {m}
       ELSE {p \in [1..Len(m) -> SeqToSet(m)] :
                /\ \A i, j \in 1..Len(m) : p[i] = p[j] => i = j
                /\ IsSortedBy(c.cursor._sort, p)}
Min(a, b) == IF a < b THEN a ELSE b
Window(full, S, L) == SubSeq(full, S + 1, Min(S + L, Len(full)))

\* C32: with skip S and a limit L > 0, exec returns the elements at positions
\* S .. S+L-1 of the matching documents, in candidate order without a sort
\* and in sorted order with one, at most L of them; the number returned is
\* the same with and without a sort.
C32_SkipAndLimit ==
    Executed /\ call.cursor._limit > 0 =>
        LET S == call.cursor._skip
            L == call.cursor._limit
            n == Len(MatchingOf(call))
        IN /\ \E full \in OrdersOf(call) :
                call.first.res = project(call.cursor, Window(full, S, L)).res
           /\ Len(call.first.res) <= L
           /\ Len(call.first.res) = Min(L, IF n > S THEN n - S ELSE 0)

\* one document is skipped and one returned of three that the sort reorders
C32_Witness ==
    /\ Executed
    /\ call.cursor._limit = 1
    /\ call.cursor._skip = 1
    /\ call.cursor._sort # NoSort
    /\ Len(MatchingOf(call)) = 3
    /\ Len(call.first.res) = 1
    /\ call.cursor._projection = [_id |-> "unset", f |-> "unset"]
    /\ call.first.res[1] # MatchingOf(call)[2]

ExecutedTwice == Executed /\ call.execs = 2

\* C40: a cursor executed twice with no write in between returns the same
\* result both times, whatever its query, sort, skip, limit and projection,
\* and exec leaves its limit, skip, sort and projection as they were.
C40_ExecTwiceSameResult ==
    ExecutedTwice =>
        /\ call.second.res = call.first.res
        /\ call.first.cursor = call.cursor
        /\ call.second.cursor = call.cursor

\* C40, for the cursors whose projection does not name _id: same result,
\* same settings.
C40_ExecTwiceWithoutIdInProjection ==
    ExecutedTwice /\ call.cursor._projection._id = "unset" =>
        /\ call.second.res = call.first.res
        /\ call.second.cursor = call.cursor

\* ---- the callback of a task and the deferred completion ----

Calling == \E r \in running : r.calling
Finished(n) == \E r \in running : r.t.n = n /\ r.pc = "signalled"

\* what a step may do while the callback of a task is executing, and what a
\* step that completes a task finds
CallbackStep ==
    /\ Calling =>
        /\ startSeq' = startSeq
        /\ doneSet' = doneSet
        /\ workers' = workers
    /\ (Calling /\ nsub' = nsub + 1) =>
        /\ \/ qtasks' = Append(qtasks, subs'[nsub']) /\ buffer' = buffer
           \/ buffer' = Append(buffer, subs'[nsub']) /\ qtasks' = qtasks
        /\ running' = running
    /\ \A r \in running :
        (r.t.n \in doneSet' \ doneSet) =>
            (r.pc = "signalled" /\ r.called = 1 /\ ~r.calling)

\* C33: when a task finishes, the caller's callback is invoked exactly once
\* and the completion reaches the queue in a deferred tick: while the
\* callback is executing no task starts and none is completed, a push made
\* then puts the task behind the tasks already queued (or buffered) and
\* starts nothing, and the completion follows once the callback has
\* returned.
C33_CallbackThenDeferredCompletion ==
    /\ [](\A r \in running : r.called = (IF r.pc = "signalled" THEN 1 ELSE 0))
    /\ [][CallbackStep]_vars
    /\ \A n \in 1..MaxOps : Finished(n) ~> (n \in doneSet)

\* the callback of a successful loadDatabase is executing and an insert was
\* pushed from inside it: it went to the queue, not to the buffer (the
\* executor was not ready before this callback), and sits behind the task
\* that was buffered
C33_Witness ==
    /\ \E r \in running : r.calling /\ r.t.kind = "load" /\ ~r.err
    /\ Len(qtasks) = 2
    /\ qtasks[1].n \in bufferedSet
    /\ qtasks[2].kind = "insert"
    /\ qtasks[2].n \notin bufferedSet

\* ---- the ready flag and the buffer ----

\* what a step may do to the ready flag, and where a push made while ready
\* puts its task
ReadyStep ==
    /\ ready => ready'
    /\ (ready /\ nsub' = nsub + 1) =>
        /\ qtasks' = Append(qtasks, subs'[nsub'])
        /\ buffer' = buffer

\* C34: ready never goes from true back to false, the buffer is empty
\* whenever the executor is ready, a push made while ready goes to the queue
\* and not to the buffer, and an in-memory-only datastore is ready with an
\* empty buffer from construction on.
C34_ReadyMonotonicBufferEmpty ==
    /\ [](ready => buffer = <<>>)
    /\ [](inMemoryOnly => ready /\ buffer = <<>>)
    /\ [][ReadyStep]_vars

\* a persistent datastore was loaded with a task in the buffer, and an insert
\* pushed after that went to the queue
C34_Witness ==
    /\ ~inMemoryOnly
    /\ ready
    /\ bufferedSet # {}
    /\ buffer = <<>>
    /\ \E i \in 1..Len(subs) : subs[i].kind = "insert" /\ i \notin bufferedSet

\* ---- a load that fails ----

LoadFailed ==
    /\ lastOp.op = "load"
    /\ lastOp.err
    /\ lastOp.cause \in {"readFile", "treatRawData", "unique"}

\* C35: a load that fails on a read error, on the corruption threshold or on
\* a unique violation while the indexes are filled has not rewritten the
\* datafile: no compaction ran, the lines of the datafile are those before
\* the load, the buffer of the executor was not drained, and every index is
\* empty, none partially filled.
C35_FailedLoadLeavesDatafile ==
    LoadFailed =>
        /\ ~lastOp.compacted
        /\ dbLines = lastOp.preLines
        /\ ~lastOp.processBuffer
        /\ \A i \in 1..Len(dbIndexes) : dbIndexes[i].tree = {}

\* a load failed on a unique violation: the datafile holds two documents
\* and the line of the unique index that refuses the second
C35_Witness ==
    /\ LoadFailed
    /\ lastOp.cause = "unique"
    /\ Len(dbLines) = 3
    /\ "f" \in IndexNames(dbIndexes)

\* ---- the TTL settings ----

TtlFields == {t.fieldName : t \in ttlIndexes}
Found == lastOp.op = "find"
\* the documents a find has removed
EvictedBy == LiveIn(lastOp.pre) \ LiveIn(dbIndexes)

\* C37: the fields that drive the TTL eviction are fields that have an
\* index, and a find on a datastore where f has no index (after
\* removeIndex(f)) evicts no document.
C37_TtlFieldsAreIndexed ==
    /\ TtlFields \subseteq IndexNames(dbIndexes)
    /\ (Found /\ "f" \notin IndexNames(lastOp.pre)) => EvictedBy = {}

\* C37, without the TTL settings: a find with no TTL setting evicts nothing.
C37_NoSettingNoEviction ==
    (Found /\ lastOp.preTtl = {}) => EvictedBy = {}

EnsureIndexFailed ==
    /\ lastOp.op = "ensureIndex"
    /\ lastOp.err
    /\ lastOp.cause \in {"missingFieldName", "unique"}
EnsureIndexExisting == lastOp.op = "ensureIndex" /\ lastOp.cause = "exists"

\* C38: an ensureIndex that fails on a missing fieldName or on a unique
\* violation leaves the datastore as it was: the indexes, the TTL settings
\* and the lines of the datafile; so does an ensureIndex for a field that
\* has an index, which reports no error.
C38_FailedEnsureIndexChangesNothing ==
    (EnsureIndexFailed \/ EnsureIndexExisting) =>
        /\ dbIndexes = lastOp.pre
        /\ ttlIndexes = lastOp.preTtl
        /\ dbLines = lastOp.preLines
        /\ EnsureIndexExisting => ~lastOp.err

\* C38, without the TTL settings: the indexes and the lines are those before
\* the call; the TTL settings too when the fieldName is missing or the field
\* has an index.
C38_FailedEnsureIndexKeepsIndexesAndLines ==
    (EnsureIndexFailed \/ EnsureIndexExisting) =>
        /\ dbIndexes = lastOp.pre
        /\ dbLines = lastOp.preLines
        /\ lastOp.cause # "unique" => ttlIndexes = lastOp.preTtl

\* the candidates of the find that were expired under the setting t
ExpiredUnder(t) ==
    {d \in LiveIn(lastOp.pre) :
        /\ lastOp.arg.q = Undefined \/ d._id = lastOp.arg.q
        /\ Expired(d, t.fieldName, t.expireAfterSeconds, lastOp.arg.now)}

\* C39: once ensureIndex({fieldName f, expireAfterSeconds n}) has succeeded,
\* every find that reports no error, on this datastore or on a new one that
\* loaded the datafile, evicts the candidates whose date in f is older than
\* n seconds: they are not returned and not kept.
C39_TtlSurvivesRestart ==
    (Found /\ ~lastOp.err) =>
        \A t \in lastOp.declared :
            /\ ExpiredUnder(t) \cap SeqToSet(lastOp.matched) = {}
            /\ ExpiredUnder(t) \cap LiveIn(dbIndexes) = {}

\* C39, for the settings the datastore holds: a find that reports no error
\* evicts the candidates expired under them.
C39_TtlEvictsUnderHeldSettings ==
    (Found /\ ~lastOp.err) =>
        \A t \in lastOp.preTtl :
            /\ ExpiredUnder(t) \cap SeqToSet(lastOp.matched) = {}
            /\ ExpiredUnder(t) \cap LiveIn(dbIndexes) = {}

\* ---- the candidates of a query ----

CandidatesGot == call.fn = "candidates"
MatchingDocs(c) == {d \in SeqToSet(c.store) : matchQueryPart(d, c.query)}

\* C36: the candidates that getCandidates takes from an index (a basic
\* match, $in, a comparison) or from all the data include every document
\* that matches the query.
C36_CandidatesIncludeMatches ==
    CandidatesGot => MatchingDocs(call) \subseteq call.out

\* C36, for the datastores whose _ids are different as strings too.
C36_CandidatesWithDistinctIdStrings ==
    (CandidatesGot /\ \A d, e \in SeqToSet(call.store) : d._id.text = e._id.text => d = e)
        => MatchingDocs(call) \subseteq call.out

\* C36, for the queries other than $in.
C36_CandidatesWithoutIn ==
    (CandidatesGot /\ call.query.op # "$in") => MatchingDocs(call) \subseteq call.out

=============================================================================
